---- MODULE Spec2Model ----
(***************************************************************************)
(* Key manager worker of oasis-core (go/worker/keymanager): the access     *)
(* control table, the enclave RPC gate, the status reconciler, the client  *)
(* runtime watchers and the ephemeral secret coordinator, as one state     *)
(* machine whose actions are the handlers of Worker.worker's select loop   *)
(* and the exported methods of Worker.                                     *)
(***************************************************************************)
EXTENDS Integers, Sequences, FiniteSets, TLC

(***************************************************************************)
(* Bounds of the model.                                                    *)
(***************************************************************************)
\* Longest node list handed to setAccessList / longest committee.
MaxNodes == 2

(***************************************************************************)
(* Program constants.                                                      *)
(***************************************************************************)
rpcCallTimeout == 2
loadEphemeralSecretMaxRetries == 5
generateEphemeralSecretMaxRetries == 5
ephemeralSecretCacheSize == 20

(***************************************************************************)
(* Identifiers.                                                            *)
(***************************************************************************)
\* libp2p peer identifiers.
PeerIDs == {"p1", "p2", "p3"}
\* The absent peer identity (rpc.PeerIDFromContext returned !ok).
NoPeer == "nopeer"
\* Node P2P public keys; "kbad" does not convert to a peer identifier.
P2PKeys == {"k1", "k2", "kbad"}
\* Node descriptors: identity key and P2P key.
Nodes == { [id |-> "n1", p2p |-> "k1"],
           [id |-> "n2", p2p |-> "k2"],
           [id |-> "n3", p2p |-> "kbad"] }
\* Runtime identifiers (common.Namespace) other than key manager runtimes.
ClientRuntimes == {"rA", "rB", "rC"}

\* Sequences over S of length at most n.
SeqsUpTo(S, n) == UNION { [1..k -> S] : k \in 0..n }
\* The elements of a sequence.
Range(s) == { s[i] : i \in DOMAIN s }

NodeLists == SeqsUpTo(Nodes, MaxNodes)

VARIABLES
    \* Worker.accessList: peer -> set of runtimes (a Go map: the domain is its keys).
    accessList,
    \* Worker.accessListByRuntime: runtime -> list of peers (absent key = empty list).
    accessListByRuntime,
    \* Worker.privatePeers (fixed at construction).
    privatePeers,
    \* Worker.initCh: "open" or "closed".
    initCh,
    \* Whether RuntimeHostNode.GetHostedRuntime() is non-nil.
    hostedRuntime,
    \* The last CallEnclave invocation and what it returned.
    lastCall

aclVars == <<accessList, accessListByRuntime>>
callVars == <<privatePeers, lastCall>>

(***************************************************************************)
(* Access control table (Worker.setAccessList).                            *)
(***************************************************************************)
\* p2p.PublicKeyToPeerID: the peer identifier of a P2P key, or an error.
PublicKeyToPeerID(key) ==
    CASE key = "k1" -> [ok |-> TRUE, id |-> "p1"]
      [] key = "k2" -> [ok |-> TRUE, id |-> "p2"]
      [] OTHER -> [ok |-> FALSE, id |-> NoPeer]

\* The first loop of setAccessList dropping the whole entry of every peer
\* listed for runtimeID.
RECURSIVE clearOldNodes_DropPeer(_, _, _)
clearOldNodes_DropPeer(al, peers, runtimeID) ==
    IF peers = <<>> THEN al
    ELSE LET peerID == Head(peers)
         IN clearOldNodes_DropPeer([p \in DOMAIN al \ {peerID} |-> al[p]],
                                   Tail(peers), runtimeID)

\* The first loop of setAccessList: drop runtimeID from the entry of every peer
\* listed for it, and drop the peer when its entry becomes empty.
RECURSIVE clearOldNodes(_, _, _)
clearOldNodes(al, peers, runtimeID) ==
    IF peers = <<>> THEN al
    ELSE LET peerID == Head(peers)
             entry == IF peerID \in DOMAIN al THEN al[peerID] \ {runtimeID} ELSE {}
             al2 == IF entry = {}
                    THEN [p \in DOMAIN al \ {peerID} |-> al[p]]
                    ELSE [al EXCEPT ![peerID] = entry]
         IN clearOldNodes(al2, Tail(peers), runtimeID)

\* The second loop of setAccessList: add (peer, runtimeID) for every node whose
\* P2P key converts, collecting the peers in node order.
RECURSIVE addNodes(_, _, _, _)
addNodes(al, peers, nodes, runtimeID) ==
    IF nodes = <<>> THEN [accessList |-> al, peers |-> peers]
    ELSE LET node == Head(nodes)
             res == PublicKeyToPeerID(node.p2p)
         IN IF ~res.ok THEN addNodes(al, peers, Tail(nodes), runtimeID)
            ELSE LET peerID == res.id
                     entry == IF peerID \in DOMAIN al THEN al[peerID] ELSE {}
                     al2 == [p \in DOMAIN al \cup {peerID} |->
                                IF p = peerID THEN entry \cup {runtimeID} ELSE al[p]]
                 IN addNodes(al2, Append(peers, peerID), Tail(nodes), runtimeID)

\* setAccessList with its first loop left out.
setAccessList_NoClear(acl, runtimeID, nodes) ==
    LET added == addNodes(acl.accessList, <<>>, nodes, runtimeID)
    IN [accessList |-> added.accessList,
        accessListByRuntime |->
            [acl.accessListByRuntime EXCEPT ![runtimeID] = added.peers]]

\* setAccessList appending the new peers to the runtime's list.
setAccessList_KeepList(acl, runtimeID, nodes) ==
    LET cleared == clearOldNodes(acl.accessList,
                                 acl.accessListByRuntime[runtimeID], runtimeID)
        added == addNodes(cleared, <<>>, nodes, runtimeID)
    IN [accessList |-> added.accessList,
        accessListByRuntime |->
            [acl.accessListByRuntime EXCEPT
                ![runtimeID] = acl.accessListByRuntime[runtimeID] \o added.peers]]

\* Worker.setAccessList on the pair of maps acl.
setAccessList(acl, runtimeID, nodes) ==
    LET cleared == clearOldNodes(acl.accessList,
                                 acl.accessListByRuntime[runtimeID], runtimeID)
        added == addNodes(cleared, <<>>, nodes, runtimeID)
    IN [accessList |-> added.accessList,
        accessListByRuntime |->
            [acl.accessListByRuntime EXCEPT ![runtimeID] = added.peers]]

\* The two maps as one value.
ACL == [accessList |-> accessList, accessListByRuntime |-> accessListByRuntime]

\* The maps after construction: both empty.
EmptyACL == [accessList |-> <<>>,
             accessListByRuntime |-> [r \in ClientRuntimes |-> <<>>]]

(***************************************************************************)
(* Enclave RPC gate (Worker.CallEnclave).                                  *)
(***************************************************************************)
\* enclaverpc.Kind: the three kinds and a value outside them.
RPCKinds == {"NoiseSession", "InsecureQuery", "LocalQuery", "OtherKind"}
\* frame.UntrustedPlaintext of a well-formed frame.
RPCMethodGetPublicKey == "get_public_key"
RPCMethodGetPublicEphemeralKey == "get_public_ephemeral_key"
Plaintexts == {"", RPCMethodGetPublicKey, RPCMethodGetPublicEphemeralKey,
               "get_or_create_keys"}
\* The request bytes: a frame with its plaintext, or bytes that do not decode.
Malformed == [malformed |-> TRUE]
Frames == { [malformed |-> FALSE, plaintext |-> m] : m \in Plaintexts }
             \cup {Malformed}

\* The switch on kind letting local queries through.
accessControl_AllowLocal(peerID, frame, kind, private, al) ==
    CASE kind = "NoiseSession" ->
           IF peerID = NoPeer THEN "not authorized"
           ELSE IF frame.malformed THEN "malformed request"
           ELSE IF frame.plaintext \in {"", RPCMethodGetPublicKey,
                                        RPCMethodGetPublicEphemeralKey}
                THEN "ok"
           ELSE IF peerID \notin private /\ peerID \notin DOMAIN al
                THEN "not authorized"
           ELSE "ok"
      [] kind \in {"InsecureQuery", "LocalQuery"} -> "ok"
      [] OTHER -> "unsupported RPC kind"

\* The access check with the access list lookup left out.
accessControl_NoList(peerID, frame, kind, private, al) ==
    CASE kind = "NoiseSession" ->
           IF peerID = NoPeer THEN "not authorized"
           ELSE IF frame.malformed THEN "malformed request"
           ELSE "ok"
      [] kind = "InsecureQuery" -> "ok"
      [] OTHER -> "unsupported RPC kind"

\* The switch on kind at the head of CallEnclave: "ok" or the error returned.
accessControl(peerID, frame, kind, private, al) ==
    CASE kind = "NoiseSession" ->
           IF peerID = NoPeer THEN "not authorized"
           ELSE IF frame.malformed THEN "malformed request"
           ELSE IF frame.plaintext \in {"", RPCMethodGetPublicKey,
                                        RPCMethodGetPublicEphemeralKey}
                THEN "ok"
           ELSE IF peerID \notin private /\ peerID \notin DOMAIN al
                THEN "not authorized"
           ELSE "ok"
      [] kind = "InsecureQuery" -> "ok"
      [] OTHER -> "unsupported RPC kind"

\* What rt.Call and the response check give once the call is dispatched.
RuntimeCallOutcomes == {"call error", "malformed response", "response"}

\* CallEnclave without its wait for initCh.
CallEnclave_NoWait(peerID, frame, kind, deadline, outcome) ==
    LET gate == accessControl(peerID, frame, kind, privatePeers, accessList)
        result == IF gate # "ok" THEN gate
                  ELSE IF ~hostedRuntime THEN "nil runtime"
                  ELSE outcome
    IN lastCall' = [kind |-> kind, peer |-> peerID, frame |-> frame,
                    result |-> result]

\* Worker.CallEnclave. deadline: the call's context is done before the select
\* on initCh takes the init branch; outcome: what the hosted runtime answers.
CallEnclave(peerID, frame, kind, deadline, outcome) ==
    LET gate == accessControl(peerID, frame, kind, privatePeers, accessList)
        result == IF gate # "ok" THEN gate
                  ELSE IF deadline THEN "context error"
                  ELSE IF ~hostedRuntime THEN "nil runtime"
                  ELSE outcome
    IN /\ gate = "ok" => (deadline \/ initCh = "closed")
       /\ lastCall' = [kind |-> kind, peer |-> peerID, frame |-> frame,
                       result |-> result]

NoCall == [kind |-> "none", peer |-> NoPeer, frame |-> Malformed,
           result |-> "none"]

(***************************************************************************)
(* Values of the status reconciler.                                        *)
(***************************************************************************)
\* A nil pointer / absent value.
Nil == [nil |-> TRUE]

\* The key manager runtime hosted by this worker (w.runtime.ID()), and another one.
OwnRuntimeID == "km"
OtherKeyManagerID == "km2"

\* api.InsecureRAK, the RAK attested for the hosted SGX enclave, a foreign key.
InsecureRAK == "insecure-rak"
EnclaveRAK == "rak1"
ForgedKey == "rak-x"
SigningKeys == {InsecureRAK, EnclaveRAK, ForgedKey}

\* node.CapabilityTEE as reported by the runtime host: nil, or hardware and RAK.
TEEHardware == {"Invalid", "IntelSGX", "Other"}
Capabilities == {Nil} \cup { [hardware |-> h, rak |-> EnclaveRAK] : h \in TEEHardware }
\* runtimeStatus values (the version is the single bundled one).
RuntimeStatuses == { [capabilityTEE |-> c] : c \in Capabilities }

\* api.SignedPolicySGX reduced to what the worker reads: for every enclave of
\* policy.Enclaves the key set of its MayQuery map.
Policies == { [enclaves |-> e] : e \in SUBSET (SUBSET ClientRuntimes) }

\* api.Status: ID, IsInitialized, IsSecure, Policy and whether Nodes holds this node.
Statuses == [id : {OwnRuntimeID, OtherKeyManagerID}, isInitialized : BOOLEAN,
             isSecure : BOOLEAN, policy : {Nil} \cup Policies,
             inCommittee : BOOLEAN]

\* What localCallEnclave(init) gives: an error, or a SignedInitResponse with the
\* key that signed it and the policy checksum the enclave reports.
InitError == [err |-> TRUE]
InitResponses == { [err |-> FALSE, signer |-> k, isSecure |-> s] :
                     k \in SigningKeys, s \in BOOLEAN }
InitOutcomes == {InitError} \cup InitResponses

\* SignedInitResponse.Verify(signingKey).
VerifyInitResponse(rsp, signingKey) == rsp.signer = signingKey

VARIABLES
    \* Worker.enabled.
    enabled,
    \* Worker.stopCh and Worker.quitCh (open or closed), and the consensus
    \* subscriptions of the loop whose channel was closed.
    stopCh, quitCh, closedStreams,
    \* Worker.ctx ("live" or "cancelled"), and the calls into the hosted runtime
    \* that have not returned: method, context, age in seconds, phase.
    ctx, rtCalls,
    \* The select loop: "notstarted", "running", "terminated" (returned) or
    \* "crashed" (nil dereference).
    loopState,
    \* Worker.globalStatus, and the loop's currentStatus / currentRuntimeStatus.
    globalStatus, currentStatus, currentRuntimeStatus,
    \* Worker.enclaveStatus, Worker.policy.
    enclaveStatus, policy,
    \* Whether Worker.initTicker is armed (initTickerCh non-nil).
    initTicker,
    \* The node registration held by the role provider: availability, and the
    \* ExtraInfo and Capabilities.TEE the registration hook writes.
    roleProvider,
    \* Whether a callback handed to SetAvailableWithCallback waits for the
    \* registration to complete.
    regCallback,
    \* How many times close(w.initCh) has executed, and how many registrations
    \* have completed.
    initChCloses, registrations

lifeVars == <<stopCh, quitCh, closedStreams, ctx, rtCalls>>

reconVars == <<enabled, loopState, globalStatus, currentStatus, currentRuntimeStatus,
               enclaveStatus, policy, initTicker, roleProvider, regCallback,
               initChCloses, registrations, initCh, hostedRuntime>>

\* The role provider before any SetAvailable call.
NotRegistered == [available |-> FALSE, extraInfo |-> Nil, tee |-> Nil]

\* The fields updateStatus writes, as one value.
RC == [initTicker |-> initTicker, enclaveStatus |-> enclaveStatus, policy |-> policy,
       roleProvider |-> roleProvider, regCallback |-> regCallback]

\* The signature check of updateStatus: "ok" or the error.
validateSignature(rsp, runtimeStatus) ==
    LET tee == runtimeStatus.capabilityTEE
    IN IF tee = Nil THEN "ok"
       ELSE IF tee.hardware = "Invalid"
            THEN (IF VerifyInitResponse(rsp, InsecureRAK) THEN "ok" ELSE "bad signature")
       ELSE IF tee.hardware = "IntelSGX"
            THEN (IF VerifyInitResponse(rsp, tee.rak) THEN "ok" ELSE "bad signature")
       ELSE "unknown TEE hardware"

\* Worker.updateStatus on the reconciler fields rc: the fields after the call and
\* whether it succeeded. initRsp is what the enclave's init call gave.
\* updateStatus registering the node also when the initialization failed.
updateStatus_RegisterOnFailure(status, runtimeStatus, initRsp, rc) ==
    LET verdict == IF initRsp.err THEN "init failed"
                   ELSE validateSignature(initRsp, runtimeStatus)
    IN IF verdict # "ok"
       THEN [ok |-> FALSE, rc |-> [rc EXCEPT !.initTicker = TRUE, !.regCallback = TRUE]]
       ELSE [ok |-> TRUE,
             rc |-> [initTicker |-> FALSE, enclaveStatus |-> initRsp,
                     policy |-> status.policy,
                     roleProvider |-> [available |-> TRUE, extraInfo |-> initRsp,
                                       tee |-> runtimeStatus.capabilityTEE],
                     regCallback |-> TRUE]]

\* updateStatus without the deferred arming of the init ticker.
updateStatus_NoRetryTicker(status, runtimeStatus, initRsp, rc) ==
    LET verdict == IF initRsp.err THEN "init failed"
                   ELSE validateSignature(initRsp, runtimeStatus)
    IN IF verdict # "ok"
       THEN [ok |-> FALSE, rc |-> rc]
       ELSE [ok |-> TRUE,
             rc |-> [initTicker |-> FALSE, enclaveStatus |-> initRsp,
                     policy |-> status.policy,
                     roleProvider |-> [available |-> TRUE, extraInfo |-> initRsp,
                                       tee |-> runtimeStatus.capabilityTEE],
                     regCallback |-> TRUE]]

\* updateStatus caching the enclave's response also when its validation failed.
updateStatus_CacheOnFailure(status, runtimeStatus, initRsp, rc) ==
    LET verdict == IF initRsp.err THEN "init failed"
                   ELSE validateSignature(initRsp, runtimeStatus)
    IN IF verdict = "init failed"
       THEN [ok |-> FALSE, rc |-> [rc EXCEPT !.initTicker = TRUE]]
       ELSE IF verdict # "ok"
       THEN [ok |-> FALSE, rc |-> [rc EXCEPT !.initTicker = TRUE, !.enclaveStatus = initRsp]]
       ELSE [ok |-> TRUE,
             rc |-> [initTicker |-> FALSE, enclaveStatus |-> initRsp,
                     policy |-> status.policy,
                     roleProvider |-> [available |-> TRUE, extraInfo |-> initRsp,
                                       tee |-> runtimeStatus.capabilityTEE],
                     regCallback |-> TRUE]]

updateStatus(status, runtimeStatus, initRsp, rc) ==
    LET verdict == IF initRsp.err THEN "init failed"
                   ELSE validateSignature(initRsp, runtimeStatus)
    IN IF verdict # "ok"
       THEN [ok |-> FALSE, rc |-> [rc EXCEPT !.initTicker = TRUE]]
       ELSE [ok |-> TRUE,
             rc |-> [initTicker |-> FALSE, enclaveStatus |-> initRsp,
                     policy |-> status.policy,
                     roleProvider |-> [available |-> TRUE, extraInfo |-> initRsp,
                                       tee |-> runtimeStatus.capabilityTEE],
                     regCallback |-> TRUE]]

(***************************************************************************)
(* Client runtime watchers (startClientRuntimeWatcher, recheckAllRuntimes, *)
(* clientRuntimeWatcher).                                                  *)
(***************************************************************************)
\* registry.Runtime descriptors: rA and rB are compute runtimes using this key
\* manager, rC is a compute runtime of another key manager, and the key manager
\* runtime itself is registered too.
RegistryRuntimes ==
    { [id |-> "rA", kind |-> "compute", keyManager |-> OwnRuntimeID],
      [id |-> "rB", kind |-> "compute", keyManager |-> OwnRuntimeID],
      [id |-> "rC", kind |-> "compute", keyManager |-> OtherKeyManagerID],
      [id |-> OwnRuntimeID, kind |-> "keymanager", keyManager |-> "none"] }

\* The registry's node descriptor of a node identity.
NodeByID(id) == CHOOSE n \in Nodes : n.id = id

VARIABLES
    \* Worker.clientRuntimes: the runtimes that have a watcher.
    clientRuntimes,
    \* The computeRuntimeCount metric.
    computeRuntimeCount,
    \* crw.nodes of every watcher: the node descriptors it tracks (GetNodes()).
    crwNodes,
    \* Whether a non-reset node update is queued for the watcher's worker task.
    crwEvents,
    \* The runtimes in the registry, and the scheduler's committees per runtime:
    \* a list of committees, each with its kind and its members' node identities.
    registered, committees

watchVars == <<clientRuntimes, computeRuntimeCount, crwNodes, crwEvents,
               registered, committees>>

\* The watcher state as one value.
WS == [clientRuntimes |-> clientRuntimes, computeRuntimeCount |-> computeRuntimeCount,
       crwNodes |-> crwNodes, crwEvents |-> crwEvents, acl |-> ACL]

\* The node descriptors a watcher tracks after WatchNode was called for every
\* member of every executor committee of cms, in call order, each node once.
RECURSIVE watchedNodes(_, _)
watchedNodes(cms, acc) ==
    IF cms = <<>> THEN acc
    ELSE LET cm == Head(cms)
             members == IF cm.kind # "executor" THEN <<>>
                        ELSE SelectSeq([i \in DOMAIN cm.members |-> NodeByID(cm.members[i])],
                                       LAMBDA n : n \notin Range(acc))
         IN watchedNodes(Tail(cms), acc \o members)

\* epochTransition with the committee kind check left out.
epochTransition_AnyKind(ws, runtimeID, cms, cmOk) ==
    LET reset == [ws EXCEPT !.crwNodes[runtimeID] = <<>>]
        allExec == [i \in DOMAIN cms |-> [cms[i] EXCEPT !.kind = "executor"]]
    IN IF ~cmOk THEN reset
       ELSE LET nodes == watchedNodes(allExec, <<>>)
            IN [reset EXCEPT !.crwNodes[runtimeID] = nodes,
                             !.crwEvents[runtimeID] = TRUE,
                             !.acl = setAccessList(reset.acl, runtimeID, nodes)]

\* clientRuntimeWatcher.epochTransition for the watcher of runtimeID. cms is what
\* GetCommittees returns, cmOk whether it succeeds.
epochTransition(ws, runtimeID, cms, cmOk) ==
    LET reset == [ws EXCEPT !.crwNodes[runtimeID] = <<>>]
    IN IF ~cmOk THEN reset
       ELSE LET nodes == watchedNodes(cms, <<>>)
            IN [reset EXCEPT !.crwNodes[runtimeID] = nodes,
                             !.crwEvents[runtimeID] = TRUE,
                             !.acl = setAccessList(reset.acl, runtimeID, nodes)]

\* The policy check letting every runtime through.
policyAllows_Always(rt, status) == TRUE

\* The policy check of startClientRuntimeWatcher.
policyAllows(rt, status) ==
    IF ~status.isSecure /\ status.policy = Nil THEN TRUE
    ELSE IF status.policy # Nil
         THEN \E enc \in status.policy.enclaves : rt.id \in enc
    ELSE FALSE

\* startClientRuntimeWatcher without its look for an existing watcher.
startClientRuntimeWatcher_NoExistingCheck(rt, status, ws, cms, nwFail, cmFail) ==
    IF status = Nil \/ ~status.isInitialized THEN ws
    ELSE IF rt.kind # "compute" \/ rt.keyManager # OwnRuntimeID THEN ws
    ELSE IF ~policyAllows(rt, status) THEN ws
    ELSE IF rt.id \in nwFail THEN ws
    ELSE LET started == epochTransition(ws, rt.id, cms[rt.id], rt.id \notin cmFail)
         IN [started EXCEPT !.clientRuntimes = @ \cup {rt.id},
                            !.computeRuntimeCount = @ + 1]

\* Worker.startClientRuntimeWatcher. nwFail: the runtimes for which creating the
\* node watcher fails; cmFail: those for which GetCommittees fails.
startClientRuntimeWatcher(rt, status, ws, cms, nwFail, cmFail) ==
    IF status = Nil \/ ~status.isInitialized THEN ws
    ELSE IF rt.kind # "compute" \/ rt.keyManager # OwnRuntimeID THEN ws
    ELSE IF rt.id \in ws.clientRuntimes THEN ws
    ELSE IF ~policyAllows(rt, status) THEN ws
    ELSE IF rt.id \in nwFail THEN ws
    ELSE LET started == epochTransition(ws, rt.id, cms[rt.id], rt.id \notin cmFail)
         IN [started EXCEPT !.clientRuntimes = @ \cup {rt.id},
                            !.computeRuntimeCount = @ + 1]

\* The loop of recheckAllRuntimes over the runtimes rts.
RECURSIVE recheckLoop(_, _, _, _, _, _)
recheckLoop(rts, status, ws, cms, nwFail, cmFail) ==
    IF rts = {} THEN ws
    ELSE LET rt == CHOOSE x \in rts : TRUE
         IN recheckLoop(rts \ {rt}, status,
                        startClientRuntimeWatcher(rt, status, ws, cms, nwFail, cmFail),
                        cms, nwFail, cmFail)

\* Worker.recheckAllRuntimes. rtsOk: whether GetRuntimes succeeds.
recheckAllRuntimes(status, ws, rts, rtsOk, cms, nwFail, cmFail) ==
    IF ~rtsOk THEN ws ELSE recheckLoop(rts, status, ws, cms, nwFail, cmFail)

\* The loop of the epoch case over all watchers.
RECURSIVE epochTransitionAll(_, _, _, _)
epochTransitionAll(rts, ws, cms, cmFail) ==
    IF rts = {} THEN ws
    ELSE LET r == CHOOSE x \in rts : TRUE
         IN epochTransitionAll(rts \ {r},
                               epochTransition(ws, r, cms[r], r \notin cmFail),
                               cms, cmFail)

(***************************************************************************)
(* Ephemeral secret coordinator: values and pure functions.                *)
(***************************************************************************)
\* Blocks per epoch (the beacon's consensus parameter Interval()).
EpochInterval == 3
\* The last block height the model produces.
MaxHeight == 6
\* Longest consensus secret feed backlog, longest list of pending secrets for
\* which the feed still delivers.
MaxFeed == 1
MaxPending == 3

\* math.MaxInt64, the disarmed generation height.
MaxInt64 == 2147483647
\* The empty epoch channel.
NoEpoch == -1

\* A published api.SignedEncryptedEphemeralSecret: runtime, epoch and publisher.
Secret(id, e, by) == [id |-> id, epoch |-> e, by |-> by]

VARIABLES
    \* The consensus layer: latest block height, the secrets published for the
    \* hosted runtime, the undelivered part of the secret feed, the latest epoch
    \* not yet taken from the epoch channel.
    height, chain, entCh, epoCh,
    \* The loop's epoch, secrets, loadSecretCh, loadSecretRetry.
    epoch, secrets, loadSecretCh, loadSecretRetry,
    \* History: the load iterations in a row, since a secret last joined the
    \* queue, in which the queue was not empty and every load failed.
    loadFailures,
    \* The loop's genSecretCh, genSecretDoneCh (a list of at most one result),
    \* genSecretHeight, genSecretInProgress, genSecretRetry.
    genSecretCh, genSecretDoneCh, genSecretHeight, genSecretInProgress, genSecretRetry,
    \* The detached generation task: its position and the arguments it was
    \* launched with; the epochs of finished tasks that have yet to run
    \* setLastGeneratedSecretEpoch.
    genTask, setLastPending,
    \* Worker.lastLoadedSecret, Worker.lastGeneratedSecret, Worker.numGeneratedSecrets.
    lastLoadedSecret, lastGeneratedSecret, numGeneratedSecrets,
    \* The secrets handed to loadEphemeralSecret in the latest load iteration, in
    \* call order, and all secrets ever handed to it.
    lastLoad, loadedSecrets,
    \* The secrets this worker has verified (SignedSecret.Verify returned nil).
    verifiedSecrets,
    \* Whether a generation task launched in the loop's current epoch was reported
    \* successful with no epoch transition since its launch.
    genOkThisEpoch, epochSinceLaunch

envVars == <<height, chain, entCh, epoCh>>
loadVars == <<secrets, loadSecretCh, loadSecretRetry, loadFailures, lastLoadedSecret, lastLoad,
              loadedSecrets>>
genVars == <<genSecretCh, genSecretDoneCh, genSecretHeight, genSecretInProgress,
             genSecretRetry, genTask, setLastPending, lastGeneratedSecret, numGeneratedSecrets,
             verifiedSecrets, genOkThisEpoch, epochSinceLaunch>>

\* Beacon.GetEpoch at the latest height, and Beacon.GetEpochBlock.
BeaconEpoch == height \div EpochInterval
GetEpochBlock(e) == e * EpochInterval

\* KeyManager.GetEphemeralSecret(runtimeID, e): the published secrets of epoch e.
GetEphemeralSecret(e) == { s \in chain : s.epoch = e }

\* The loop of fetchLastEphemeralSecrets: i iterations done, e the epoch to ask.
RECURSIVE fetchLoop(_, _, _)
fetchLoop(i, e, acc) ==
    IF ~(i < ephemeralSecretCacheSize /\ e > 0) THEN acc
    ELSE LET found == GetEphemeralSecret(e)
         IN fetchLoop(i + 1, e - 1,
                      IF found = {} THEN acc
                      ELSE Append(acc, CHOOSE s \in found : TRUE))

\* fetchLastEphemeralSecrets starting at the current epoch instead of the next.
fetchLastEphemeralSecrets_FromCurrent(fetchOk) ==
    IF ~fetchOk THEN [err |-> TRUE, secrets |-> <<>>]
    ELSE [err |-> FALSE, secrets |-> fetchLoop(0, BeaconEpoch, <<>>)]

\* Worker.fetchLastEphemeralSecrets. fetchOk: whether all consensus queries succeed.
fetchLastEphemeralSecrets(fetchOk) ==
    IF ~fetchOk THEN [err |-> TRUE, secrets |-> <<>>]
    ELSE [err |-> FALSE, secrets |-> fetchLoop(0, BeaconEpoch + 1, <<>>)]

\* The interval of randomBlockHeight without the scaling to the percentile.
percentileInterval_NoScale(percentile) == IF EpochInterval <= 0 THEN 1 ELSE EpochInterval

\* Worker.randomBlockHeight. beaconOk: whether the beacon queries succeed; rnd:
\* the value rand.Int63n draws.
percentileInterval(percentile) ==
    LET scaled == IF percentile < 100 THEN (EpochInterval * percentile) \div 100
                  ELSE EpochInterval
    IN IF scaled <= 0 THEN 1 ELSE scaled

randomBlockHeight(e, percentile, beaconOk, rnd) ==
    IF ~beaconOk THEN [err |-> TRUE, height |-> 0]
    ELSE [err |-> FALSE, height |-> GetEpochBlock(e) + rnd]

(***************************************************************************)
(* Variable groups.                                                        *)
(***************************************************************************)
rcVars == <<initTicker, enclaveStatus, policy, roleProvider, regCallback>>
wsVars == <<clientRuntimes, computeRuntimeCount, crwNodes, crwEvents>>
initVars == <<initCh, initChCloses, registrations>>
statusVars == <<globalStatus, currentStatus>>

vars == <<accessList, accessListByRuntime, privatePeers, lastCall, enabled, stopCh,
          quitCh, closedStreams, ctx, rtCalls, loopState,
          globalStatus, currentStatus, currentRuntimeStatus, enclaveStatus, policy,
          initTicker, roleProvider, regCallback, initChCloses, registrations, initCh,
          hostedRuntime, clientRuntimes, computeRuntimeCount, crwNodes, crwEvents,
          registered, committees, height, chain, entCh, epoCh, epoch, secrets,
          loadSecretCh, loadSecretRetry, loadFailures, genSecretCh, genSecretDoneCh, genSecretHeight,
          genSecretInProgress, genSecretRetry, genTask, setLastPending,
          lastLoadedSecret, lastGeneratedSecret, numGeneratedSecrets, lastLoad, loadedSecrets,
          verifiedSecrets, genOkThisEpoch, epochSinceLaunch>>

\* The reconciler fields become rc; the watcher state and the access list become ws.
SetRC(rc) ==
    /\ initTicker' = rc.initTicker
    /\ enclaveStatus' = rc.enclaveStatus
    /\ policy' = rc.policy
    /\ roleProvider' = rc.roleProvider
    /\ regCallback' = rc.regCallback

SetWS(ws) ==
    /\ clientRuntimes' = ws.clientRuntimes
    /\ computeRuntimeCount' = ws.computeRuntimeCount
    /\ crwNodes' = ws.crwNodes
    /\ crwEvents' = ws.crwEvents
    /\ accessList' = ws.acl.accessList
    /\ accessListByRuntime' = ws.acl.accessListByRuntime

(***************************************************************************)
(* The state after construction (New), by component.                       *)
(***************************************************************************)
InitAccess ==
    /\ accessList = EmptyACL.accessList
    /\ accessListByRuntime = EmptyACL.accessListByRuntime

InitReconciler ==
    /\ loopState = "notstarted"
    /\ globalStatus = Nil /\ currentStatus = Nil /\ currentRuntimeStatus = Nil
    /\ enclaveStatus = Nil /\ policy = Nil
    /\ initTicker = FALSE
    /\ roleProvider = NotRegistered
    /\ regCallback = FALSE
    /\ initCh = "open" /\ initChCloses = 0 /\ registrations = 0
    /\ hostedRuntime = FALSE
    /\ stopCh = "open" /\ quitCh = "open" /\ closedStreams = {}
    /\ ctx = "live" /\ rtCalls = {}

InitWatchers ==
    /\ clientRuntimes = {}
    /\ computeRuntimeCount = 0
    /\ crwNodes = [r \in ClientRuntimes |-> <<>>]
    /\ crwEvents = [r \in ClientRuntimes |-> FALSE]

InitCoordinator ==
    /\ epoch = 0
    /\ secrets = <<>> /\ loadSecretCh = FALSE /\ loadSecretRetry = 0 /\ loadFailures = 0
    /\ genSecretCh = FALSE /\ genSecretDoneCh = <<>>
    /\ genSecretHeight = MaxInt64
    /\ genSecretInProgress = FALSE /\ genSecretRetry = 0
    /\ genTask = [pc |-> "idle"]
    /\ setLastPending = <<>>
    /\ lastLoadedSecret = 0 /\ lastGeneratedSecret = 0 /\ numGeneratedSecrets = 0
    /\ lastLoad = <<>> /\ loadedSecrets = {}
    /\ verifiedSecrets = {}
    /\ genOkThisEpoch = FALSE /\ epochSinceLaunch = FALSE

\* A consensus layer at genesis with nothing published and nothing registered.
InitConsensus ==
    /\ height = 0 /\ chain = {} /\ entCh = <<>> /\ epoCh = NoEpoch
    /\ registered = {}

(***************************************************************************)
(* Worker.Start and the registration callback.                             *)
(***************************************************************************)
\* Worker.Start.
Start ==
    /\ loopState = "notstarted"
    /\ IF ~enabled
       THEN /\ initCh' = "closed" /\ initChCloses' = initChCloses + 1
            /\ loopState' = "disabled"
       ELSE /\ loopState' = "running"
            /\ UNCHANGED <<initCh, initChCloses>>
    /\ UNCHANGED <<aclVars, callVars, enabled, lifeVars, statusVars, currentRuntimeStatus, rcVars,
                   registrations, hostedRuntime, wsVars, registered, committees,
                   envVars, epoch, loadVars, genVars>>

\* The callback without its check that initCh is still open.
signalInitialized_NoCheck(ch, closes) ==
    [initCh |-> "closed", initChCloses |-> closes + 1]

\* The callback of SetAvailableWithCallback: close initCh unless it is closed.
signalInitialized(ch, closes) ==
    IF ch = "closed" THEN [initCh |-> ch, initChCloses |-> closes]
    ELSE [initCh |-> "closed", initChCloses |-> closes + 1]

\* The registration worker completes a registration and runs the callback.
RegistrationCallback(maxRegistrations) ==
    /\ regCallback
    /\ registrations < maxRegistrations
    /\ regCallback' = FALSE
    /\ registrations' = registrations + 1
    /\ LET r == signalInitialized(initCh, initChCloses)
       IN initCh' = r.initCh /\ initChCloses' = r.initChCloses
    /\ UNCHANGED <<aclVars, callVars, enabled, lifeVars, loopState, statusVars,
                   currentRuntimeStatus, initTicker, enclaveStatus, policy,
                   roleProvider, hostedRuntime, wsVars, registered, committees,
                   envVars, epoch, loadVars, genVars>>

(***************************************************************************)
(* The select loop of Worker.worker: reconciler and watcher cases.         *)
(***************************************************************************)
\* Runtime host events.
HostEvents ==
    { [kind |-> k, capabilityTEE |-> c] : k \in {"Started", "Updated"}, c \in Capabilities }
      \cup { [kind |-> k, capabilityTEE |-> Nil] : k \in {"FailedToStart", "Stopped", "Unknown"} }

\* case ev := <-hrtEventCh. fetchOk: whether the warm-up queries succeed; initRsp:
\* what the enclave's init call gives.
HrtEventCase(ev, fetchOk, initRsp) ==
    /\ loopState = "running"
    /\ hostedRuntime
    /\ IF ev.kind \in {"Started", "Updated"}
       THEN LET rs == [capabilityTEE |-> ev.capabilityTEE]
                fetched == fetchLastEphemeralSecrets(fetchOk)
                prereg == IF enclaveStatus = Nil
                          THEN [RC EXCEPT !.roleProvider =
                                   [available |-> TRUE, extraInfo |-> Nil,
                                    tee |-> ev.capabilityTEE]]
                          ELSE RC
            IN /\ currentRuntimeStatus' = rs
               /\ secrets' = fetched.secrets
               /\ loadSecretRetry' = 0 /\ loadFailures' = 0
               /\ loadSecretCh' = TRUE
               /\ IF currentStatus = Nil THEN UNCHANGED rcVars
                  ELSE SetRC(updateStatus(currentStatus, rs, initRsp, prereg).rc)
       ELSE IF ev.kind \in {"FailedToStart", "Stopped"}
       THEN /\ currentRuntimeStatus' = Nil
            /\ roleProvider' = [roleProvider EXCEPT !.available = FALSE]
            /\ UNCHANGED <<initTicker, enclaveStatus, policy, regCallback, secrets,
                           loadSecretRetry, loadFailures, loadSecretCh>>
       ELSE UNCHANGED <<currentRuntimeStatus, rcVars, secrets, loadSecretRetry, loadFailures,
                        loadSecretCh>>
    /\ UNCHANGED <<aclVars, callVars, enabled, lifeVars, loopState, statusVars, initVars,
                   hostedRuntime, wsVars, registered, committees, envVars, epoch,
                   lastLoadedSecret, lastLoad, loadedSecrets, genVars>>

\* What provisioning the hosted runtime gives on the first status.
ProvisionOutcomes == {"ok", "provision failed", "start failed"}

\* case status := <-statusCh.
StatusCase(status, prov, initRsp, rtsOk, nwFail, cmFail) ==
    /\ loopState = "running"
    /\ "status" \notin closedStreams
    /\ IF status.id # OwnRuntimeID
       THEN UNCHANGED <<statusVars, loopState, quitCh, hostedRuntime, rcVars, wsVars,
                        aclVars>>
       ELSE /\ globalStatus' = status
            /\ IF ~hostedRuntime /\ prov # "ok"
               THEN /\ loopState' = "terminated"
                    /\ quitCh' = "closed"
                    /\ hostedRuntime' = (prov # "provision failed")
                    /\ UNCHANGED <<currentStatus, rcVars, wsVars, aclVars>>
               ELSE /\ hostedRuntime' = TRUE
                    /\ currentStatus' = status
                    /\ UNCHANGED <<loopState, quitCh>>
                    /\ IF currentRuntimeStatus = Nil
                       THEN UNCHANGED <<rcVars, wsVars, aclVars>>
                       ELSE LET us == updateStatus(status, currentRuntimeStatus, initRsp, RC)
                            IN /\ SetRC(us.rc)
                               /\ IF ~us.ok THEN UNCHANGED <<wsVars, aclVars>>
                                  ELSE SetWS(recheckAllRuntimes(status, WS, registered,
                                                 rtsOk, committees, nwFail, cmFail))
    /\ UNCHANGED <<callVars, enabled, stopCh, closedStreams, ctx, rtCalls,
                   currentRuntimeStatus,
                   initVars, registered, committees, envVars, epoch, loadVars, genVars>>

\* case <-w.initTickerCh.
InitTickerCase(initRsp, rtsOk, nwFail, cmFail) ==
    /\ loopState = "running"
    /\ initTicker
    /\ IF currentStatus = Nil \/ currentRuntimeStatus = Nil
       THEN UNCHANGED <<rcVars, wsVars, aclVars>>
       ELSE LET us == updateStatus(currentStatus, currentRuntimeStatus, initRsp, RC)
            IN /\ SetRC(us.rc)
               /\ IF ~us.ok THEN UNCHANGED <<wsVars, aclVars>>
                  ELSE SetWS(recheckAllRuntimes(currentStatus, WS, registered, rtsOk,
                                                committees, nwFail, cmFail))
    /\ UNCHANGED <<callVars, enabled, lifeVars, loopState, statusVars, currentRuntimeStatus,
                   initVars, hostedRuntime, registered, committees, envVars, epoch,
                   loadVars, genVars>>

\* case rt := <-rtCh: the registry announces the runtime rt.
RtCase(rt, nwFail, cmFail) ==
    /\ loopState = "running"
    /\ registered' = registered \cup {rt}
    /\ SetWS(startClientRuntimeWatcher(rt, currentStatus, WS, committees, nwFail, cmFail))
    /\ UNCHANGED <<callVars, enabled, lifeVars, loopState, statusVars, currentRuntimeStatus,
                   rcVars, initVars, hostedRuntime, committees, envVars, epoch,
                   loadVars, genVars>>

\* clientRuntimeWatcher.worker takes a queued node update of the watcher of r.
CrwWorker(r) ==
    /\ r \in clientRuntimes
    /\ crwEvents[r]
    /\ crwEvents' = [crwEvents EXCEPT ![r] = FALSE]
    /\ LET acl == setAccessList(ACL, r, crwNodes[r])
       IN /\ accessList' = acl.accessList
          /\ accessListByRuntime' = acl.accessListByRuntime
    /\ UNCHANGED <<callVars, enabled, lifeVars, loopState, statusVars, currentRuntimeStatus,
                   rcVars, initVars, hostedRuntime, clientRuntimes, computeRuntimeCount,
                   crwNodes, registered, committees, envVars, epoch, loadVars, genVars>>

\* setAccessList called with a runtime and a node list.
SetAccessListCall(runtimeID, nodes) ==
    /\ LET acl == setAccessList(ACL, runtimeID, nodes)
       IN /\ accessList' = acl.accessList
          /\ accessListByRuntime' = acl.accessListByRuntime
    /\ UNCHANGED <<callVars, enabled, lifeVars, loopState, statusVars, currentRuntimeStatus,
                   rcVars, initVars, hostedRuntime, wsVars, registered, committees,
                   envVars, epoch, loadVars, genVars>>

\* A peer (or a local caller) invokes CallEnclave.
CallEnclaveCall(peerID, frame, kind, deadline, outcome) ==
    /\ CallEnclave(peerID, frame, kind, deadline, outcome)
    /\ UNCHANGED <<aclVars, privatePeers, enabled, lifeVars, loopState, statusVars,
                   currentRuntimeStatus, rcVars, initVars, hostedRuntime, wsVars,
                   registered, committees, envVars, epoch, loadVars, genVars>>

(***************************************************************************)
(* The select loop of Worker.worker: ephemeral secret cases.               *)
(***************************************************************************)
\* The body of the epoCh case for the received epoch e.
ReceiveEpoch(e, cmFail, beaconOk) ==
    /\ epoch' = e
    /\ SetWS(epochTransitionAll(clientRuntimes, WS, committees, cmFail))
    /\ \E rnd \in 0..(percentileInterval(90) - 1) :
           genSecretHeight' = randomBlockHeight(e, 90, beaconOk, rnd).height
    /\ genSecretRetry' = 0
    /\ epochSinceLaunch' = TRUE
    /\ genOkThisEpoch' = FALSE
    /\ UNCHANGED <<callVars, enabled, lifeVars, loopState, statusVars, currentRuntimeStatus,
                   rcVars, initVars, hostedRuntime, registered, committees, height,
                   chain, entCh, loadVars, genSecretCh, genSecretDoneCh,
                   genSecretInProgress, genTask, setLastPending, lastGeneratedSecret, numGeneratedSecrets,
                   verifiedSecrets>>

\* case epoch = <-epoCh. cmFail: the watchers whose GetCommittees fails; beaconOk:
\* whether the beacon queries of randomBlockHeight succeed.
EpochCase(cmFail, beaconOk) ==
    /\ loopState = "running"
    /\ epoCh # NoEpoch
    /\ epoCh' = NoEpoch
    /\ ReceiveEpoch(epoCh, cmFail, beaconOk)

\* The consensus layer produces the next block, which starts a new epoch (with
\* the committees newCommittees) every EpochInterval blocks; a running loop
\* takes the block: case blk, ok := <-blkCh.
BlkCase(maxHeight, newCommittees) ==
    /\ height < maxHeight
    /\ height' = height + 1
    /\ IF height' % EpochInterval = 0
       THEN /\ epoCh' = IF "epo" \in closedStreams THEN epoCh
                        ELSE height' \div EpochInterval
            /\ committees' = newCommittees
       ELSE UNCHANGED <<epoCh, committees>>
    /\ IF loopState = "running" /\ "blk" \notin closedStreams
       THEN /\ genSecretCh' = (genSecretCh \/ height' >= genSecretHeight)
            /\ loadSecretCh' = (loadSecretCh \/ Len(secrets) > 0)
       ELSE UNCHANGED <<genSecretCh, loadSecretCh>>
    /\ UNCHANGED <<aclVars, callVars, enabled, lifeVars, loopState, statusVars,
                   currentRuntimeStatus, rcVars, initVars, hostedRuntime, wsVars,
                   registered, chain, entCh, epoch, secrets, loadSecretRetry, loadFailures,
                   lastLoadedSecret, lastLoad, loadedSecrets, genSecretDoneCh,
                   genSecretHeight, genSecretInProgress, genSecretRetry, genTask,
                   setLastPending, lastGeneratedSecret, numGeneratedSecrets, verifiedSecrets,
                   genOkThisEpoch, epochSinceLaunch>>

\* Another key manager node publishes the secret of the next epoch.
PublishOther(maxFeed, maxPending) ==
    /\ Len(entCh) < maxFeed
    /\ Len(secrets) < maxPending
    /\ GetEphemeralSecret(BeaconEpoch + 1) = {}
    /\ chain' = chain \cup {Secret(OwnRuntimeID, BeaconEpoch + 1, "other")}
    /\ entCh' = IF "ent" \in closedStreams THEN entCh
                ELSE Append(entCh, Secret(OwnRuntimeID, BeaconEpoch + 1, "other"))
    /\ UNCHANGED <<aclVars, callVars, enabled, lifeVars, loopState, statusVars,
                   currentRuntimeStatus, rcVars, initVars, hostedRuntime, wsVars,
                   registered, committees, height, epoCh, epoch, loadVars, genVars>>

\* A secret of another key manager runtime appears on the feed.
PublishForeign(maxFeed) ==
    /\ Len(entCh) < maxFeed
    /\ "ent" \notin closedStreams
    /\ entCh' = Append(entCh, Secret(OtherKeyManagerID, BeaconEpoch + 1, "other"))
    /\ UNCHANGED <<aclVars, callVars, enabled, lifeVars, loopState, statusVars,
                   currentRuntimeStatus, rcVars, initVars, hostedRuntime, wsVars,
                   registered, committees, height, chain, epoCh, epoch, loadVars,
                   genVars>>

\* The entCh case without its runtime check.
observeSecret_AnyRuntime(secret, own) == TRUE

\* The runtime check of the entCh case: whether the secret is taken.
observeSecret(secret, own) == secret.id = own

\* The entCh case disarming on every secret of its own runtime.
EntCase_DisarmAlways ==
    /\ loopState = "running"
    /\ entCh # <<>>
    /\ entCh' = Tail(entCh)
    /\ LET secret == Head(entCh)
       IN IF ~observeSecret(secret, OwnRuntimeID)
          THEN UNCHANGED <<genSecretHeight, secrets, loadSecretRetry, loadFailures, loadSecretCh>>
          ELSE /\ genSecretHeight' = MaxInt64
               /\ secrets' = Append(secrets, secret)
               /\ loadSecretRetry' = 0 /\ loadFailures' = 0
               /\ loadSecretCh' = TRUE
    /\ UNCHANGED <<aclVars, callVars, enabled, lifeVars, loopState, statusVars,
                   currentRuntimeStatus, rcVars, initVars, hostedRuntime, wsVars,
                   registered, committees, height, chain, epoCh, epoch,
                   lastLoadedSecret, lastLoad, loadedSecrets, genSecretCh,
                   genSecretDoneCh, genSecretInProgress, genSecretRetry, genTask,
                   setLastPending, lastGeneratedSecret, numGeneratedSecrets, verifiedSecrets,
                   genOkThisEpoch, epochSinceLaunch>>

\* case secret = <-entCh.
EntCase ==
    /\ loopState = "running"
    /\ entCh # <<>>
    /\ entCh' = Tail(entCh)
    /\ LET secret == Head(entCh)
       IN IF ~observeSecret(secret, OwnRuntimeID)
          THEN UNCHANGED <<genSecretHeight, secrets, loadSecretRetry, loadFailures, loadSecretCh>>
          ELSE /\ genSecretHeight' = IF secret.epoch = epoch + 1 THEN MaxInt64
                                     ELSE genSecretHeight
               /\ secrets' = Append(secrets, secret)
               /\ loadSecretRetry' = 0 /\ loadFailures' = 0
               /\ loadSecretCh' = TRUE
    /\ UNCHANGED <<aclVars, callVars, enabled, lifeVars, loopState, statusVars,
                   currentRuntimeStatus, rcVars, initVars, hostedRuntime, wsVars,
                   registered, committees, height, chain, epoCh, epoch,
                   lastLoadedSecret, lastLoad, loadedSecrets, genSecretCh,
                   genSecretDoneCh, genSecretInProgress, genSecretRetry, genTask,
                   setLastPending, lastGeneratedSecret, numGeneratedSecrets, verifiedSecrets,
                   genOkThisEpoch, epochSinceLaunch>>

\* The genSecretCh case without its look at genSecretInProgress.
GenSecretCase_NoInProgressCheck ==
    /\ loopState = "running"
    /\ genSecretCh
    /\ genSecretCh' = FALSE
    /\ IF \/ currentStatus = Nil \/ currentRuntimeStatus = Nil
          \/ genSecretHeight = MaxInt64
       THEN UNCHANGED <<genSecretRetry, genSecretHeight, genSecretInProgress, genTask,
                        epochSinceLaunch>>
       ELSE /\ genSecretRetry' = genSecretRetry + 1
            /\ genSecretHeight' =
                   IF genSecretRetry + 1 > generateEphemeralSecretMaxRetries
                   THEN MaxInt64 ELSE genSecretHeight
            /\ genSecretInProgress' = TRUE
            /\ genTask' = [pc |-> "running", epoch |-> epoch + 1,
                           kmStatus |-> currentStatus,
                           rtStatus |-> currentRuntimeStatus]
            /\ epochSinceLaunch' = FALSE
    /\ UNCHANGED <<aclVars, callVars, enabled, lifeVars, loopState, statusVars,
                   currentRuntimeStatus, rcVars, initVars, hostedRuntime, wsVars,
                   registered, committees, envVars, epoch, loadVars, genSecretDoneCh,
                   setLastPending, lastGeneratedSecret, numGeneratedSecrets, verifiedSecrets,
                   genOkThisEpoch>>

\* The genSecretCh case without its retry cap.
GenSecretCase_NoCap ==
    /\ loopState = "running"
    /\ genSecretCh
    /\ genSecretCh' = FALSE
    /\ IF \/ currentStatus = Nil \/ currentRuntimeStatus = Nil
          \/ genSecretInProgress \/ genSecretHeight = MaxInt64
       THEN UNCHANGED <<genSecretRetry, genSecretHeight, genSecretInProgress, genTask,
                        epochSinceLaunch>>
       ELSE /\ genSecretRetry' = genSecretRetry + 1
            /\ genSecretHeight' = genSecretHeight
            /\ genSecretInProgress' = TRUE
            /\ genTask' = [pc |-> "running", epoch |-> epoch + 1,
                           kmStatus |-> currentStatus,
                           rtStatus |-> currentRuntimeStatus]
            /\ epochSinceLaunch' = FALSE
    /\ UNCHANGED <<aclVars, callVars, enabled, lifeVars, loopState, statusVars,
                   currentRuntimeStatus, rcVars, initVars, hostedRuntime, wsVars,
                   registered, committees, envVars, epoch, loadVars, genSecretDoneCh,
                   setLastPending, lastGeneratedSecret, numGeneratedSecrets, verifiedSecrets,
                   genOkThisEpoch>>

\* case <-genSecretCh.
GenSecretCase ==
    /\ loopState = "running"
    /\ genSecretCh
    /\ genSecretCh' = FALSE
    /\ IF \/ currentStatus = Nil \/ currentRuntimeStatus = Nil
          \/ genSecretInProgress \/ genSecretHeight = MaxInt64
       THEN UNCHANGED <<genSecretRetry, genSecretHeight, genSecretInProgress, genTask,
                        epochSinceLaunch>>
       ELSE /\ genSecretRetry' = genSecretRetry + 1
            /\ genSecretHeight' =
                   IF genSecretRetry + 1 > generateEphemeralSecretMaxRetries
                   THEN MaxInt64 ELSE genSecretHeight
            /\ genSecretInProgress' = TRUE
            /\ genTask' = [pc |-> "running", epoch |-> epoch + 1,
                           kmStatus |-> currentStatus,
                           rtStatus |-> currentRuntimeStatus]
            /\ epochSinceLaunch' = FALSE
    /\ UNCHANGED <<aclVars, callVars, enabled, lifeVars, loopState, statusVars,
                   currentRuntimeStatus, rcVars, initVars, hostedRuntime, wsVars,
                   registered, committees, envVars, epoch, loadVars, genSecretDoneCh,
                   setLastPending, lastGeneratedSecret, numGeneratedSecrets, verifiedSecrets,
                   genOkThisEpoch>>

\* What the enclave's generate_ephemeral_secret call gives: an error, or a signed
\* secret with its epoch (right or wrong), its signing key and its REK set
\* (the committee's or not).
GenerateError == [err |-> TRUE]
GenerateResponses == { [err |-> FALSE, epochOk |-> e, signer |-> k, reksOk |-> r] :
                         e \in BOOLEAN, k \in SigningKeys, r \in BOOLEAN }

\* The collaborators' answers during one run of generateEphemeralSecret.
GenerateInputs == [queryOk : BOOLEAN, genRsp : {GenerateError} \cup GenerateResponses,
                   registryOk : BOOLEAN, kmHardware : TEEHardware, submitOk : BOOLEAN]

\* SignedSecret.Verify(epoch, reks, rak) on the enclave's response.
VerifySecret(rsp, rak) == rsp.epochOk /\ rsp.reksOk /\ rsp.signer = rak

\* generateEphemeralSecret without its look at the consensus layer for an
\* already published secret.
generateEphemeralSecret_NoSkip(e, kmStatus, rtStatus, in) ==
    LET fail == [ok |-> FALSE, called |-> FALSE, verified |-> FALSE, submitted |-> FALSE,
                 published |-> FALSE]
        rak == IF in.kmHardware = "Invalid" THEN InsecureRAK
               ELSE IF in.kmHardware = "IntelSGX" /\ rtStatus.capabilityTEE # Nil
                    THEN rtStatus.capabilityTEE.rak
               ELSE "none"
    IN IF ~kmStatus.inCommittee THEN fail
       ELSE IF in.genRsp.err THEN [fail EXCEPT !.called = TRUE]
       ELSE IF ~in.registryOk THEN [fail EXCEPT !.called = TRUE]
       ELSE IF rak = "none" THEN [fail EXCEPT !.called = TRUE]
       ELSE IF ~VerifySecret(in.genRsp, rak) THEN [fail EXCEPT !.called = TRUE]
       ELSE IF ~(in.submitOk /\ e = BeaconEpoch + 1)
            THEN [ok |-> FALSE, called |-> TRUE, verified |-> TRUE, submitted |-> TRUE,
                  published |-> FALSE]
       ELSE [ok |-> TRUE, called |-> TRUE, verified |-> TRUE, submitted |-> TRUE,
             published |-> TRUE]

\* generateEphemeralSecret submitting the enclave's response without verifying it.
generateEphemeralSecret_SubmitUnverified(e, kmStatus, rtStatus, in) ==
    LET fail == [ok |-> FALSE, called |-> FALSE, verified |-> FALSE, submitted |-> FALSE,
                 published |-> FALSE]
    IN IF ~in.queryOk THEN fail
       ELSE IF GetEphemeralSecret(e) # {} THEN [fail EXCEPT !.ok = TRUE]
       ELSE IF ~kmStatus.inCommittee THEN fail
       ELSE IF in.genRsp.err THEN [fail EXCEPT !.called = TRUE]
       ELSE IF ~in.registryOk THEN [fail EXCEPT !.called = TRUE]
       ELSE IF ~(in.submitOk /\ e = BeaconEpoch + 1)
            THEN [ok |-> FALSE, called |-> TRUE, verified |-> FALSE, submitted |-> TRUE,
                  published |-> FALSE]
       ELSE [ok |-> TRUE, called |-> TRUE, verified |-> FALSE, submitted |-> TRUE,
             published |-> TRUE]

\* Worker.generateEphemeralSecret for epoch e: whether it returns nil, whether the
\* enclave's generate call was made, whether the response was verified, whether
\* the transaction was submitted, and whether it was accepted.
generateEphemeralSecret(e, kmStatus, rtStatus, in) ==
    LET fail == [ok |-> FALSE, called |-> FALSE, verified |-> FALSE, submitted |-> FALSE,
                 published |-> FALSE]
        rak == IF in.kmHardware = "Invalid" THEN InsecureRAK
               ELSE IF in.kmHardware = "IntelSGX" /\ rtStatus.capabilityTEE # Nil
                    THEN rtStatus.capabilityTEE.rak
               ELSE "none"
    IN IF ~in.queryOk THEN fail
       ELSE IF GetEphemeralSecret(e) # {}
            THEN [fail EXCEPT !.ok = TRUE]
       ELSE IF ~kmStatus.inCommittee THEN fail
       ELSE IF in.genRsp.err THEN [fail EXCEPT !.called = TRUE]
       ELSE IF ~in.registryOk THEN [fail EXCEPT !.called = TRUE]
       ELSE IF rak = "none" THEN [fail EXCEPT !.called = TRUE]
       ELSE IF ~VerifySecret(in.genRsp, rak) THEN [fail EXCEPT !.called = TRUE]
       ELSE IF ~(in.submitOk /\ e = BeaconEpoch + 1)
            THEN [ok |-> FALSE, called |-> TRUE, verified |-> TRUE, submitted |-> TRUE,
                  published |-> FALSE]
       ELSE [ok |-> TRUE, called |-> TRUE, verified |-> TRUE, submitted |-> TRUE,
             published |-> TRUE]

\* The detached generation task runs generateEphemeralSecret and sends the result.
GenTaskRun(in, maxFeed) ==
    /\ genTask.pc = "running"
    /\ Len(genSecretDoneCh) < 1
    /\ LET res == generateEphemeralSecret(genTask.epoch, genTask.kmStatus,
                                          genTask.rtStatus, in)
           secret == Secret(OwnRuntimeID, genTask.epoch, "self")
       IN /\ res.published => Len(entCh) < maxFeed
          /\ genSecretDoneCh' = Append(genSecretDoneCh, res)
          /\ chain' = IF res.published THEN chain \cup {secret} ELSE chain
          /\ entCh' = IF res.published THEN Append(entCh, secret) ELSE entCh
          /\ verifiedSecrets' = IF res.verified THEN verifiedSecrets \cup {secret}
                                ELSE verifiedSecrets
          /\ setLastPending' = IF res.ok THEN Append(setLastPending, genTask.epoch)
                               ELSE setLastPending
    /\ genTask' = [pc |-> "idle"]
    /\ UNCHANGED <<aclVars, callVars, enabled, lifeVars, loopState, statusVars,
                   currentRuntimeStatus, rcVars, initVars, hostedRuntime, wsVars,
                   registered, committees, height, epoCh, epoch, loadVars, genSecretCh,
                   genSecretHeight, genSecretInProgress, genSecretRetry,
                   lastGeneratedSecret, numGeneratedSecrets, genOkThisEpoch, epochSinceLaunch>>

\* A finished task runs setLastGeneratedSecretEpoch.
SetLastGenerated ==
    /\ setLastPending # <<>>
    /\ numGeneratedSecrets' = numGeneratedSecrets + 1
    /\ lastGeneratedSecret' = Head(setLastPending)
    /\ setLastPending' = Tail(setLastPending)
    /\ UNCHANGED <<aclVars, callVars, enabled, lifeVars, loopState, statusVars,
                   currentRuntimeStatus, rcVars, initVars, hostedRuntime, wsVars,
                   registered, committees, envVars, epoch, loadVars, genSecretCh,
                   genSecretDoneCh, genSecretHeight, genSecretInProgress,
                   genSecretRetry, genTask, verifiedSecrets, genOkThisEpoch,
                   epochSinceLaunch>>

\* The genSecretDoneCh case disarming after a failed task too.
genSecretDone_DisarmOnFailure(ok, retry, h) == MaxInt64

\* The genSecretDoneCh case never disarming.
genSecretDone_NoDisarm(ok, retry, h) == h

\* The genSecretDoneCh case disarming without its look at genSecretRetry.
genSecretDone_IgnoreRetry(ok, retry, h) == IF ok THEN MaxInt64 ELSE h

\* The genSecretDoneCh case: the generation height after a task reported ok.
genSecretDone(ok, retry, h) == IF ok /\ retry > 0 THEN MaxInt64 ELSE h

\* case ok := <-genSecretDoneCh.
GenDoneCase ==
    /\ loopState = "running"
    /\ genSecretDoneCh # <<>>
    /\ genSecretDoneCh' = Tail(genSecretDoneCh)
    /\ LET r == Head(genSecretDoneCh)
       IN /\ genSecretHeight' = genSecretDone(r.ok, genSecretRetry, genSecretHeight)
          /\ genOkThisEpoch' = (genOkThisEpoch \/ (r.published /\ ~epochSinceLaunch))
    /\ genSecretInProgress' = FALSE
    /\ UNCHANGED <<aclVars, callVars, enabled, lifeVars, loopState, statusVars,
                   currentRuntimeStatus, rcVars, initVars, hostedRuntime, wsVars,
                   registered, committees, envVars, epoch, loadVars, genSecretCh,
                   genSecretRetry, genTask, setLastPending, lastGeneratedSecret, numGeneratedSecrets,
                   verifiedSecrets, epochSinceLaunch>>

\* The pending secrets after a load iteration whose cap is checked too early.
afterLoad_CapAtFive(failed, retry) ==
    IF retry + 1 >= loadEphemeralSecretMaxRetries THEN <<>> ELSE failed

\* The pending secrets after a load iteration that found the retry counter at
\* retry and in which the loads of failed failed.
afterLoad(failed, retry) ==
    IF retry + 1 > loadEphemeralSecretMaxRetries THEN <<>> ELSE failed

\* The subsequence of s at the indices idx.
SubSeqAt(s, idx) ==
    LET F[i \in 0..Len(s)] ==
            IF i = 0 THEN <<>>
            ELSE IF i \in idx THEN Append(F[i - 1], s[i]) ELSE F[i - 1]
    IN F[Len(s)]

\* The loadSecretCh case counting only the iterations in which no load succeeded.
LoadCase_CountFailedOnly(failIdx) ==
    /\ loopState = "running"
    /\ loadSecretCh
    /\ failIdx \subseteq DOMAIN secrets
    /\ loadSecretCh' = FALSE
    /\ IF secrets # <<>> /\ ~hostedRuntime
       THEN /\ loopState' = "crashed"
            /\ quitCh' = "closed"
            /\ UNCHANGED <<secrets, loadSecretRetry, loadFailures, lastLoadedSecret, lastLoad,
                           loadedSecrets>>
       ELSE LET okIdx == DOMAIN secrets \ failIdx
                lastOk == CHOOSE i \in okIdx : \A j \in okIdx : j <= i
            IN /\ lastLoad' = secrets
               /\ loadedSecrets' = loadedSecrets \cup Range(secrets)
               /\ lastLoadedSecret' = IF okIdx = {} THEN lastLoadedSecret
                                      ELSE secrets[lastOk].epoch
               /\ secrets' = afterLoad(SubSeqAt(secrets, failIdx), loadSecretRetry)
               /\ loadSecretRetry' = IF failIdx = DOMAIN secrets THEN loadSecretRetry + 1
                                     ELSE loadSecretRetry
               /\ loadFailures' = IF secrets # <<>> /\ failIdx = DOMAIN secrets
                                  THEN loadFailures + 1 ELSE 0
               /\ UNCHANGED <<loopState, quitCh>>
    /\ UNCHANGED <<aclVars, callVars, enabled, stopCh, closedStreams, ctx, rtCalls, statusVars,
                   currentRuntimeStatus,
                   rcVars, initVars, hostedRuntime, wsVars, registered, committees,
                   envVars, epoch, genVars>>

\* case <-loadSecretCh. failIdx: the positions of the secrets whose load fails.
LoadCase(failIdx) ==
    /\ loopState = "running"
    /\ loadSecretCh
    /\ failIdx \subseteq DOMAIN secrets
    /\ loadSecretCh' = FALSE
    /\ IF secrets # <<>> /\ ~hostedRuntime
       THEN /\ loopState' = "crashed"
            /\ quitCh' = "closed"
            /\ UNCHANGED <<secrets, loadSecretRetry, loadFailures, lastLoadedSecret, lastLoad,
                           loadedSecrets>>
       ELSE LET okIdx == DOMAIN secrets \ failIdx
                lastOk == CHOOSE i \in okIdx : \A j \in okIdx : j <= i
            IN /\ lastLoad' = secrets
               /\ loadedSecrets' = loadedSecrets \cup Range(secrets)
               /\ lastLoadedSecret' = IF okIdx = {} THEN lastLoadedSecret
                                      ELSE secrets[lastOk].epoch
               /\ secrets' = afterLoad(SubSeqAt(secrets, failIdx), loadSecretRetry)
               /\ loadSecretRetry' = loadSecretRetry + 1
               /\ loadFailures' = IF secrets # <<>> /\ failIdx = DOMAIN secrets
                                  THEN loadFailures + 1 ELSE 0
               /\ UNCHANGED <<loopState, quitCh>>
    /\ UNCHANGED <<aclVars, callVars, enabled, stopCh, closedStreams, ctx, rtCalls, statusVars,
                   currentRuntimeStatus,
                   rcVars, initVars, hostedRuntime, wsVars, registered, committees,
                   envVars, epoch, genVars>>

(***************************************************************************)
(* Worker.Stop and the stopCh case.                                        *)
(***************************************************************************)
\* Worker.Stop, called once on a started worker: a disabled worker closes quitCh
\* itself, an enabled one cancels the context and closes stopCh.
Stop ==
    /\ loopState # "notstarted"
    /\ stopCh = "open"
    /\ IF ~enabled
       THEN /\ quitCh = "open"
            /\ quitCh' = "closed"
            /\ UNCHANGED <<stopCh, ctx>>
       ELSE /\ ctx' = "cancelled"
            /\ stopCh' = "closed"
            /\ UNCHANGED quitCh
    /\ UNCHANGED <<aclVars, callVars, enabled, closedStreams, rtCalls, loopState,
                   statusVars,
                   currentRuntimeStatus, rcVars, initVars, hostedRuntime, wsVars,
                   registered, committees, envVars, epoch, loadVars, genVars>>

\* case <-w.stopCh: with a generation in progress the loop first receives from
\* genSecretDoneCh; then worker() returns and its deferred close(quitCh) runs.
StopCase ==
    /\ loopState = "running"
    /\ stopCh = "closed"
    /\ genSecretInProgress => genSecretDoneCh # <<>>
    /\ genSecretDoneCh' = IF genSecretInProgress THEN Tail(genSecretDoneCh)
                          ELSE genSecretDoneCh
    /\ loopState' = "stopped"
    /\ quitCh' = "closed"
    /\ UNCHANGED <<aclVars, callVars, enabled, stopCh, closedStreams, ctx, rtCalls, statusVars,
                   currentRuntimeStatus, rcVars, initVars, hostedRuntime, wsVars,
                   registered, committees, envVars, epoch, loadVars, genSecretCh,
                   genSecretHeight, genSecretInProgress, genSecretRetry, genTask,
                   setLastPending, lastGeneratedSecret, numGeneratedSecrets, verifiedSecrets,
                   genOkThisEpoch, epochSinceLaunch>>

(***************************************************************************)
(* Calls into the hosted runtime (rt.Call) and the contexts that end them. *)
(***************************************************************************)
\* context.WithTimeout(parent, d): done when d seconds have passed or when the
\* parent is done.
WithTimeout(parent, d) == [parent |-> parent, hasDeadline |-> TRUE, deadline |-> d]

\* The context CallEnclave passes to rt.Call: the caller's, with the timeout.
CallEnclaveCtx == WithTimeout("caller", rpcCallTimeout)

\* The context localCallEnclave passes to rt.Call: w.ctx as it is.
localCallEnclaveCtx == [parent |-> "worker", hasDeadline |-> FALSE, deadline |-> 0]

RemoteKinds == {"NoiseSession", "InsecureQuery"}
LocalMethods == {"init", "generate_ephemeral_secret", "load_ephemeral_secret"}

\* ctx.Done() of the context of call c.
CallDone(c) ==
    \/ c.ctx.hasDeadline /\ c.age >= c.ctx.deadline
    \/ c.ctx.parent = "worker" /\ ctx = "cancelled"
    \/ c.ctx.parent = "caller" /\ c.callerDone

\* CallEnclave passes the gate and starts its timeout, or the worker enters
\* localCallEnclave; one call per method is followed at a time.
CallBegins(m) ==
    /\ \A c \in rtCalls : c.method # m
    /\ IF m \in RemoteKinds
       THEN rtCalls' = rtCalls \cup {[method |-> m, ctx |-> CallEnclaveCtx, age |-> 0,
                                      phase |-> "waiting", callerDone |-> FALSE]}
       ELSE /\ loopState = "running"
            /\ hostedRuntime
            /\ rtCalls' = rtCalls \cup {[method |-> m, ctx |-> localCallEnclaveCtx,
                                          age |-> 0, phase |-> "called",
                                          callerDone |-> FALSE]}
    /\ UNCHANGED <<aclVars, callVars, enabled, stopCh, quitCh, closedStreams, ctx,
                   loopState, statusVars, currentRuntimeStatus, rcVars, initVars,
                   hostedRuntime, wsVars, registered, committees, envVars, epoch,
                   loadVars, genVars>>

\* CallEnclave's select: initCh is closed, the request goes to rt.Call.
CallProceeds(c) ==
    /\ c \in rtCalls
    /\ c.phase = "waiting"
    /\ initCh = "closed"
    /\ rtCalls' = (rtCalls \ {c}) \cup {[c EXCEPT !.phase = "called"]}
    /\ UNCHANGED <<aclVars, callVars, enabled, stopCh, quitCh, closedStreams, ctx,
                   loopState, statusVars, currentRuntimeStatus, rcVars, initVars,
                   hostedRuntime, wsVars, registered, committees, envVars, epoch,
                   loadVars, genVars>>

\* The call returns: the enclave answered, or the call's context is done.
CallEnds(c) ==
    /\ c \in rtCalls
    /\ c.phase = "called" \/ CallDone(c)
    /\ rtCalls' = rtCalls \ {c}
    /\ UNCHANGED <<aclVars, callVars, enabled, stopCh, quitCh, closedStreams, ctx,
                   loopState, statusVars, currentRuntimeStatus, rcVars, initVars,
                   hostedRuntime, wsVars, registered, committees, envVars, epoch,
                   loadVars, genVars>>

\* The caller of CallEnclave cancels the context it passed.
CallerCancels(c) ==
    /\ c \in rtCalls
    /\ c.ctx.parent = "caller"
    /\ ~c.callerDone
    /\ rtCalls' = (rtCalls \ {c}) \cup {[c EXCEPT !.callerDone = TRUE]}
    /\ UNCHANGED <<aclVars, callVars, enabled, stopCh, quitCh, closedStreams, ctx,
                   loopState, statusVars, currentRuntimeStatus, rcVars, initVars,
                   hostedRuntime, wsVars, registered, committees, envVars, epoch,
                   loadVars, genVars>>

\* A second passes for the calls in flight. A call whose context is done
\* returns before time moves on.
Tick(maxAge) ==
    /\ rtCalls # {}
    /\ \A c \in rtCalls : ~CallDone(c) /\ c.age < maxAge
    /\ rtCalls' = {[c EXCEPT !.age = c.age + 1] : c \in rtCalls}
    /\ UNCHANGED <<aclVars, callVars, enabled, stopCh, quitCh, closedStreams, ctx,
                   loopState, statusVars, currentRuntimeStatus, rcVars, initVars,
                   hostedRuntime, wsVars, registered, committees, envVars, epoch,
                   loadVars, genVars>>

(***************************************************************************)
(* The consensus streams the loop consumes, closed by their source.        *)
(***************************************************************************)
Streams == {"status", "ent", "epo", "blk"}

\* The source of stream s closes its channel while the loop consumes it.
CloseStream(s) ==
    /\ loopState = "running"
    /\ s \notin closedStreams
    /\ closedStreams' = closedStreams \cup {s}
    /\ UNCHANGED <<aclVars, callVars, enabled, stopCh, quitCh, ctx, rtCalls, loopState,
                   statusVars,
                   currentRuntimeStatus, rcVars, initVars, hostedRuntime, wsVars,
                   registered, committees, envVars, epoch, loadVars, genVars>>

\* The loop receives from the closed, drained channel of stream s. Only the
\* blkCh case tests ok and returns; the statusCh and entCh cases dereference
\* the nil they receive; the epoCh case runs with the zero epoch and the
\* channel stays ready.
ClosedStreamCase(s, cmFail, beaconOk) ==
    /\ loopState = "running"
    /\ s \in closedStreams
    /\ IF s = "epo"
       THEN /\ epoCh = NoEpoch
            /\ ReceiveEpoch(0, cmFail, beaconOk)
            /\ UNCHANGED epoCh
       ELSE /\ s = "ent" => entCh = <<>>
            /\ loopState' = IF s = "blk" THEN "terminated" ELSE "crashed"
            /\ quitCh' = "closed"
            /\ UNCHANGED <<aclVars, callVars, enabled, stopCh, closedStreams, ctx, rtCalls, statusVars,
                           currentRuntimeStatus, rcVars, initVars, hostedRuntime,
                           wsVars, registered, committees, envVars, epoch, loadVars,
                           genVars>>

(***************************************************************************)
(* Inputs shared by the specifications.                                    *)
(***************************************************************************)
\* The status of scenario S1: insecure, no policy, this node in the committee.
InsecureStatus == [id |-> OwnRuntimeID, isInitialized |-> TRUE, isSecure |-> FALSE,
                   policy |-> Nil, inCommittee |-> TRUE]
\* The runtime host reports a start without TEE capability.
StartedNoTEE == [kind |-> "Started", capabilityTEE |-> Nil]
\* The init response of an insecure enclave build.
InsecureInitResponse == [err |-> FALSE, signer |-> InsecureRAK, isSecure |-> FALSE]
\* A scheduler without committees.
NoCommittees == [r \in ClientRuntimes |-> <<>>]
\* Registrations completed in one run of the model.
MaxRegistrations == 2

(***************************************************************************)
(* SpecACL: the access control table under arbitrary setAccessList calls.  *)
(***************************************************************************)
InitACL ==
    /\ InitAccess /\ InitReconciler /\ InitWatchers /\ InitCoordinator /\ InitConsensus
    /\ enabled = TRUE
    /\ privatePeers = {}
    /\ lastCall = NoCall
    /\ committees = NoCommittees

ACLSetAccessList ==
    \E r \in ClientRuntimes, nodes \in NodeLists : SetAccessListCall(r, nodes)

NextACL == ACLSetAccessList

SpecACL == InitACL /\ [][NextACL]_vars

(***************************************************************************)
(* SpecGate: the RPC gate of a worker that initializes as in scenario S1,  *)
(* with the access list of one runtime set to single nodes.                *)
(***************************************************************************)
InitGate ==
    /\ InitAccess /\ InitReconciler /\ InitWatchers /\ InitCoordinator /\ InitConsensus
    /\ enabled = TRUE
    /\ privatePeers \in SUBSET {"p2", "p3"}
    /\ lastCall = NoCall
    /\ committees = NoCommittees

GateSetAccessList ==
    \E nodes \in SeqsUpTo(Nodes, 1) : SetAccessListCall("rA", nodes)

GateCallEnclave ==
    \E peerID \in PeerIDs \cup {NoPeer}, frame \in Frames, kind \in RPCKinds,
       deadline \in BOOLEAN, outcome \in RuntimeCallOutcomes :
        CallEnclaveCall(peerID, frame, kind, deadline, outcome)

GateStatus == StatusCase(InsecureStatus, "ok", InsecureInitResponse, TRUE, {}, {})

GateStarted == HrtEventCase(StartedNoTEE, TRUE, InsecureInitResponse)

GateRegistered == RegistrationCallback(1)

NextGate ==
    \/ Start
    \/ GateStatus
    \/ GateStarted
    \/ GateRegistered
    \/ GateSetAccessList
    \/ GateCallEnclave

SpecGate == InitGate /\ [][NextGate]_vars

\* C1: the two access maps mirror each other: runtime r is in accessList[p] iff p
\* occurs in accessListByRuntime[r], and no peer of accessList has an empty
\* runtime set (so a peer is a key iff some runtime lists it).
C1_MapsMirror ==
    /\ \A p \in PeerIDs, r \in ClientRuntimes :
           (p \in DOMAIN accessList /\ r \in accessList[p])
               <=> p \in Range(accessListByRuntime[r])
    /\ \A p \in DOMAIN accessList : accessList[p] # {}
    /\ DOMAIN accessList \subseteq PeerIDs

\* A peer serving two runtimes, listed twice for one of them, and a runtime whose
\* list was replaced by a different peer.
C1_Witness ==
    /\ accessListByRuntime["rA"] = <<"p1", "p1">>
    /\ accessListByRuntime["rB"] = <<"p2", "p1">>
    /\ accessList["p1"] = {"rA", "rB"}

(***************************************************************************)
(* SpecReplace: the access lists replaced by lists of distinct nodes, as    *)
(* the watchers' node trackers hold them.                                  *)
(***************************************************************************)
DistinctNodeLists ==
    { nodes \in NodeLists :
        \A i, j \in DOMAIN nodes : nodes[i] = nodes[j] => i = j }

NextReplace ==
    \E r \in ClientRuntimes, nodes \in DistinctNodeLists : SetAccessListCall(r, nodes)

SpecReplace == InitACL /\ [][NextReplace]_vars

\* The peers of the nodes of a list whose P2P key converts.
ValidPeers(nodes) ==
    { PublicKeyToPeerID(nodes[i].p2p).id :
        i \in { j \in DOMAIN nodes : PublicKeyToPeerID(nodes[j].p2p).ok } }

\* C20: right after setAccessList(r, nodes) the list of r holds one entry per
\* node with a valid P2P key and exactly those nodes' peers, r is in the entry
\* of exactly those peers, and a peer listed for r before that is not among
\* them has lost r.
C20_ListReplaced ==
    [][\A r \in ClientRuntimes, nodes \in DistinctNodeLists :
          SetAccessListCall(r, nodes) =>
              /\ Range(accessListByRuntime'[r]) = ValidPeers(nodes)
              /\ Len(accessListByRuntime'[r]) =
                     Cardinality({ j \in DOMAIN nodes : PublicKeyToPeerID(nodes[j].p2p).ok })
              /\ \A p \in PeerIDs :
                     (p \in DOMAIN accessList' /\ r \in accessList'[p])
                         <=> p \in ValidPeers(nodes)
              /\ \A p \in Range(accessListByRuntime[r]) \ ValidPeers(nodes) :
                     ~(p \in DOMAIN accessList' /\ r \in accessList'[p])]_vars

\* The list of rA was replaced by another peer's while the replaced peer keeps
\* its entry for rB.
C20_Witness ==
    /\ accessListByRuntime["rA"] = <<"p2">>
    /\ accessListByRuntime["rB"] = <<"p1">>
    /\ DOMAIN accessList = {"p1", "p2"}
    /\ accessList["p1"] = {"rB"}

\* C21: setAccessList(r, nodes) leaves the list of every other runtime r2 and
\* the membership of r2 in every peer's entry as they were.
C21_OtherRuntimesKept ==
    [][\A r \in ClientRuntimes, nodes \in DistinctNodeLists :
          SetAccessListCall(r, nodes) =>
              \A r2 \in ClientRuntimes \ {r} :
                  /\ accessListByRuntime'[r2] = accessListByRuntime[r2]
                  /\ \A p \in PeerIDs :
                         (p \in DOMAIN accessList' /\ r2 \in accessList'[p])
                             <=> (p \in DOMAIN accessList /\ r2 \in accessList[p])]_vars

\* p1 serves rB only and p2 serves rA and rB: p1, listed for rB, is not (or no
\* longer) listed for rA.
C21_Witness ==
    /\ accessListByRuntime["rA"] = <<"p2">>
    /\ accessListByRuntime["rB"] = <<"p1", "p2">>
    /\ accessList["p1"] = {"rB"}
    /\ accessList["p2"] = {"rA", "rB"}

\* C2: a NoiseSession call with a well-formed frame is refused as not authorized
\* when it has no peer identity, or when its method is not public and its peer is
\* neither private nor in the access list; otherwise it passes the gate and
\* goes on towards the enclave (the wait for initialization, then the dispatch).
PassedGate == {"context error", "nil runtime"} \cup RuntimeCallOutcomes
PublicMethods == {"", RPCMethodGetPublicKey, RPCMethodGetPublicEphemeralKey}

C2_NoiseGate ==
    [][ (lastCall' # lastCall /\ lastCall'.kind = "NoiseSession"
            /\ ~lastCall'.frame.malformed)
        => LET c == lastCall'
               admitted == \/ c.frame.plaintext \in PublicMethods
                           \/ c.peer \in privatePeers
                           \/ c.peer \in DOMAIN accessList
           IN IF c.peer = NoPeer \/ ~admitted
              THEN c.result = "not authorized"
              ELSE c.result \in PassedGate ]_vars

\* Scenario S5: only p1 is in the access list; p2 was refused for a non-public
\* method.
C2_Witness ==
    /\ DOMAIN accessList = {"p1"}
    /\ "p2" \notin privatePeers
    /\ lastCall.kind = "NoiseSession" /\ lastCall.peer = "p2"
    /\ lastCall.frame = [malformed |-> FALSE, plaintext |-> "get_or_create_keys"]
    /\ lastCall.result = "not authorized"

(***************************************************************************)
(* SpecReconcile: the status reconciler of a worker, enabled or not, under *)
(* every status, runtime host event and init outcome; nothing is published *)
(* and no runtime registers.                                               *)
(***************************************************************************)
ReconStatuses ==
    { [id |-> i, isInitialized |-> TRUE, isSecure |-> s, policy |-> p,
       inCommittee |-> TRUE] :
        i \in {OwnRuntimeID, OtherKeyManagerID}, s \in BOOLEAN,
        p \in {Nil, [enclaves |-> {{"rA"}}]} }
ReconInitOutcomes ==
    {InitError} \cup { [err |-> FALSE, signer |-> k, isSecure |-> FALSE] :
                         k \in SigningKeys }

InitReconcile ==
    /\ InitAccess /\ InitReconciler /\ InitWatchers /\ InitCoordinator /\ InitConsensus
    /\ enabled \in BOOLEAN
    /\ privatePeers = {}
    /\ lastCall = NoCall
    /\ committees = NoCommittees

ReconStatus ==
    \E status \in ReconStatuses, prov \in ProvisionOutcomes,
       initRsp \in ReconInitOutcomes, rtsOk \in BOOLEAN :
        StatusCase(status, prov, initRsp, rtsOk, {}, {})

ReconHrtEvent ==
    \E ev \in HostEvents, fetchOk \in BOOLEAN, initRsp \in ReconInitOutcomes :
        HrtEventCase(ev, fetchOk, initRsp)

ReconInitTicker ==
    \E initRsp \in ReconInitOutcomes, rtsOk \in BOOLEAN :
        InitTickerCase(initRsp, rtsOk, {}, {})

ReconRegistered == RegistrationCallback(MaxRegistrations)

ReconLoad == LoadCase({})

NextReconcile ==
    \/ Start
    \/ ReconStatus
    \/ ReconHrtEvent
    \/ ReconInitTicker
    \/ ReconRegistered
    \/ ReconLoad

SpecReconcile == InitReconcile /\ [][NextReconcile]_vars

\* The key an init response must verify against for the TEE capability the
\* runtime reports: the insecure RAK without TEE or with hardware Invalid, the
\* attested RAK with Intel SGX.
ExpectedRAK(tee) ==
    IF tee = Nil THEN InsecureRAK
    ELSE IF tee.hardware = "Invalid" THEN InsecureRAK
    ELSE IF tee.hardware = "IntelSGX" THEN tee.rak
    ELSE "none"

\* C3: the init response cached as enclaveStatus and attached to the node
\* registration verifies against the key of the TEE capability it was accepted
\* under.
C3_CachedResponseVerified ==
    enclaveStatus # Nil =>
        /\ roleProvider.extraInfo = enclaveStatus
        /\ VerifyInitResponse(enclaveStatus, ExpectedRAK(roleProvider.tee))

\* C6: initCh never reopens and close(initCh) executes at most once.
C6_InitializedOnce ==
    [][ /\ initCh = "closed" => initCh' = "closed"
        /\ initChCloses' <= 1 ]_vars

\* Two registrations have completed on an enabled worker, so the callback ran
\* again after it had closed initCh.
C6_Witness ==
    /\ enabled
    /\ registrations = 2
    /\ initCh = "closed" /\ initChCloses = 1

CoordGenerateInputs ==
    { in \in GenerateInputs :
        /\ in.registryOk /\ in.kmHardware = "Invalid"
        /\ ~in.genRsp.err => (in.genRsp.epochOk /\ in.genRsp.reksOk
                              /\ in.genRsp.signer \in {InsecureRAK, ForgedKey}) }

Init ==
    /\ InitAccess /\ InitReconciler /\ InitWatchers /\ InitCoordinator /\ InitConsensus
    /\ enabled = TRUE
    /\ privatePeers = {}
    /\ lastCall = NoCall
    /\ committees = NoCommittees

CoordStatus == StatusCase(InsecureStatus, "ok", InsecureInitResponse, TRUE, {}, {})

CoordStarted == \E fetchOk \in BOOLEAN : HrtEventCase(StartedNoTEE, fetchOk, InsecureInitResponse)

CoordEpoch == \E beaconOk \in BOOLEAN : EpochCase({}, beaconOk)

CoordBlk == BlkCase(MaxHeight, NoCommittees)

CoordPublishOther == PublishOther(MaxFeed, MaxPending)

CoordPublishForeign == PublishForeign(MaxFeed)

CoordGenTask == \E in \in CoordGenerateInputs : GenTaskRun(in, MaxFeed)

CoordLoad == LoadCase({})

Next ==
    \/ Start
    \/ CoordStatus
    \/ CoordStarted
    \/ CoordEpoch
    \/ CoordBlk
    \/ CoordPublishOther
    \/ CoordPublishForeign
    \/ EntCase
    \/ GenSecretCase
    \/ CoordGenTask
    \/ SetLastGenerated
    \/ GenDoneCase
    \/ CoordLoad

Spec == Init /\ [][Next]_vars

\* C5: after a generation task launched in the current epoch reported a
\* submitted publication, the generation height is the disarmed sentinel and no
\* task is running or launched, until the next epoch transition.
C5_DisarmedAfterPublish ==
    genOkThisEpoch =>
        /\ genSecretHeight = MaxInt64
        /\ ~genSecretInProgress
        /\ genTask.pc = "idle"

\* The node published the secret of epoch 2 itself during epoch 1, the loop took
\* the result, and a later block signalled the generation case again.
C5_Witness ==
    /\ genOkThisEpoch
    /\ epoch = 1
    /\ Secret(OwnRuntimeID, 2, "self") \in chain
    /\ genSecretHeight = MaxInt64
    /\ height > 3 /\ genSecretCh

\* C7: every secret passed to the enclave's load call was verified by the worker
\* before.
C7_LoadedWereVerified == loadedSecrets \subseteq verifiedSecrets

\* C7, as the code has it: every secret passed to the enclave's load call is a
\* secret of the worker's own key manager runtime that the consensus layer
\* holds; the worker itself verified those it generated, before publishing them.
C7_LoadedFromConsensus ==
    \A s \in loadedSecrets :
        /\ s.id = OwnRuntimeID
        /\ s \in chain
        /\ s.by = "self" => s \in verifiedSecrets

\* The worker loaded a secret another node published, which it never verified,
\* and one it generated, verified and published itself.
C7_Witness ==
    /\ Secret(OwnRuntimeID, 1, "other") \in loadedSecrets \ verifiedSecrets
    /\ Secret(OwnRuntimeID, 2, "self") \in loadedSecrets \cap verifiedSecrets

(***************************************************************************)
(* SpecLoad: the load path of the coordinator. Loads fail or succeed secret *)
(* by secret; other nodes publish the secrets, and this node's generation  *)
(* tasks find the consensus query failing.                                 *)
(***************************************************************************)
\* Secrets pending at once.
LoadMaxPending == 2

\* A generation task whose query of the consensus layer fails.
FailedQuery ==
    [queryOk |-> FALSE, genRsp |-> GenerateError, registryOk |-> TRUE,
     kmHardware |-> "Invalid", submitOk |-> FALSE]

LoadStatus == StatusCase(InsecureStatus, "ok", InsecureInitResponse, TRUE, {}, {})

LoadStarted == \E fetchOk \in BOOLEAN : HrtEventCase(StartedNoTEE, fetchOk, InsecureInitResponse)

LoadEpoch == EpochCase({}, TRUE)

LoadBlk == BlkCase(MaxHeight, NoCommittees)

LoadPublishOther == PublishOther(MaxFeed, LoadMaxPending)

LoadGenTask == GenTaskRun(FailedQuery, MaxFeed)

LoadLoad == \E failIdx \in SUBSET DOMAIN secrets : LoadCase(failIdx)

NextLoad ==
    \/ Start
    \/ LoadStatus
    \/ LoadStarted
    \/ LoadEpoch
    \/ LoadBlk
    \/ LoadPublishOther
    \/ EntCase
    \/ GenSecretCase
    \/ LoadGenTask
    \/ GenDoneCase
    \/ LoadLoad

SpecLoad == Init /\ [][NextLoad]_vars

\* C8: when every load iteration since a secret last joined the queue failed,
\* the queue is empty once five iterations failed, and the retry counter
\* never exceeds five.
C8_ClearedAfterFifth ==
    /\ (loadFailures = loadSecretRetry /\ loadFailures >= loadEphemeralSecretMaxRetries)
           => secrets = <<>>
    /\ loadSecretRetry <= loadEphemeralSecretMaxRetries

\* C8, as the code has it: when every load iteration since a secret last joined
\* the queue failed, the queue is emptied by the sixth failed iteration and not
\* before, and the retry counter never exceeds six.
C8_ClearedAfterSixth ==
    /\ (loadFailures = loadSecretRetry /\ loadFailures >= 1)
           => (secrets = <<>> <=> loadFailures = loadEphemeralSecretMaxRetries + 1)
    /\ loadSecretRetry <= loadEphemeralSecretMaxRetries + 1
    /\ loadFailures <= loadSecretRetry

\* Six iterations in a row failed to load the one pending secret, and the queue
\* is empty with no load signal left.
C8_Witness ==
    /\ loadFailures = loadEphemeralSecretMaxRetries + 1
    /\ loadSecretRetry = loadEphemeralSecretMaxRetries + 1
    /\ Len(lastLoad) = 1
    /\ secrets = <<>> /\ ~loadSecretCh

(***************************************************************************)
(* SpecWarmup: a worker constructed while the consensus layer is at epoch  *)
(* WarmupEpoch and holds the secrets of the last ephemeralSecretCacheSize  *)
(* epochs. The load iterations load every pending secret or none.          *)
(***************************************************************************)
\* The epoch of the consensus layer when the worker is constructed, and the
\* blocks produced after that.
WarmupEpoch == 20
WarmupBlocks == 2

InitWarmup ==
    /\ InitAccess /\ InitReconciler /\ InitWatchers /\ InitCoordinator
    /\ enabled = TRUE
    /\ privatePeers = {}
    /\ lastCall = NoCall
    /\ committees = NoCommittees
    /\ registered = {}
    /\ height = GetEpochBlock(WarmupEpoch)
    /\ chain = { Secret(OwnRuntimeID, e, "other") :
                   e \in (WarmupEpoch - ephemeralSecretCacheSize + 1)..WarmupEpoch }
    /\ entCh = <<>>
    /\ epoCh = WarmupEpoch

WarmupStatus == StatusCase(InsecureStatus, "ok", InsecureInitResponse, TRUE, {}, {})

WarmupStarted == \E fetchOk \in BOOLEAN : HrtEventCase(StartedNoTEE, fetchOk, InsecureInitResponse)

WarmupEpochCase == \E beaconOk \in BOOLEAN : EpochCase({}, beaconOk)

WarmupBlk == BlkCase(GetEpochBlock(WarmupEpoch) + WarmupBlocks, NoCommittees)

WarmupPublishOther == PublishOther(MaxFeed, MaxPending)

WarmupGenTask == \E in \in CoordGenerateInputs : GenTaskRun(in, MaxFeed)

WarmupLoad == \E failIdx \in {{}, DOMAIN secrets} : LoadCase(failIdx)

NextWarmup ==
    \/ Start
    \/ WarmupStatus
    \/ WarmupStarted
    \/ WarmupEpochCase
    \/ WarmupBlk
    \/ WarmupPublishOther
    \/ EntCase
    \/ GenSecretCase
    \/ WarmupGenTask
    \/ SetLastGenerated
    \/ GenDoneCase
    \/ WarmupLoad

SpecWarmup == InitWarmup /\ [][NextWarmup]_vars

\* C4: the queue of pending secrets never holds more than
\* ephemeralSecretCacheSize secrets.
C4_PendingBounded == Len(secrets) <= ephemeralSecretCacheSize

\* A load iteration in which every load succeeds, taken while the secret of the
\* next epoch is not published.
WarmupLoadStep ==
    /\ loadSecretCh /\ ~loadSecretCh'
    /\ secrets # <<>> /\ secrets' = <<>> /\ loadFailures' = 0
    /\ GetEphemeralSecret(BeaconEpoch + 1) = {}

\* C9: with the secrets of the epochs E-19..E published and the enclave started
\* at epoch E, a load iteration in which every load succeeds makes 20 load
\* calls, one for each of these epochs, and leaves lastLoadedSecret = E.
C9_WarmupLoadsTwenty ==
    [][ WarmupLoadStep =>
            /\ Len(lastLoad') = ephemeralSecretCacheSize
            /\ { s.epoch : s \in Range(lastLoad') } =
                   (BeaconEpoch - ephemeralSecretCacheSize + 1)..BeaconEpoch
            /\ lastLoadedSecret' = BeaconEpoch ]_vars

\* C9, as the code has it: the warm-up asks for the epochs E+1 down to E-18, so
\* with E+1 not published the iteration makes 19 load calls, for E down to E-18
\* in this order, never loads E-19 and leaves lastLoadedSecret = E-18.
C9_WarmupLoadsNineteen ==
    [][ WarmupLoadStep =>
            /\ lastLoad' = [i \in 1..(ephemeralSecretCacheSize - 1) |->
                               Secret(OwnRuntimeID, BeaconEpoch + 1 - i, "other")]
            /\ lastLoadedSecret' = BeaconEpoch - ephemeralSecretCacheSize + 2 ]_vars

\* The warm-up iteration has run at epoch WarmupEpoch with every load succeeding
\* and nothing published since: 19 calls, the last one for the oldest epoch.
C9_Witness ==
    /\ BeaconEpoch = WarmupEpoch
    /\ GetEphemeralSecret(WarmupEpoch + 1) = {}
    /\ Len(lastLoad) = ephemeralSecretCacheSize - 1
    /\ lastLoad[1].epoch = WarmupEpoch
    /\ lastLoadedSecret = WarmupEpoch - ephemeralSecretCacheSize + 2
    /\ secrets = <<>> /\ loadFailures = 0

(***************************************************************************)
(* SpecWatch: the client runtime watchers and the access list they keep,   *)
(* under status updates with different policies, runtime announcements,    *)
(* epoch transitions with changing committees and failing queries.         *)
(***************************************************************************)
\* Statuses of this key manager: the insecure one without policy, and secure
\* ones without policy or whose policy lets rA and rB query, or rB only.
PolicyAB == [enclaves |-> {{"rA", "rB"}}]
PolicyB == [enclaves |-> {{"rB"}}]
WatchStatuses ==
    {InsecureStatus} \cup
    { [id |-> OwnRuntimeID, isInitialized |-> TRUE, isSecure |-> TRUE, policy |-> p,
       inCommittee |-> TRUE] : p \in {Nil, PolicyAB, PolicyB} }

\* The scheduler's committees in odd and in even epochs.
CommitteesOdd ==
    [r \in ClientRuntimes |-> <<[kind |-> "executor", members |-> <<"n1">>]>>]
CommitteesEven ==
    [r \in ClientRuntimes |->
        IF r = "rA" THEN <<[kind |-> "storage", members |-> <<"n1">>],
                           [kind |-> "executor", members |-> <<"n2", "n3">>]>>
        ELSE <<[kind |-> "executor", members |-> <<"n1", "n2">>]>>]

\* The queries that fail at all, or for rA.
QueryFailures == {{}, {"rA"}}

\* What fails during one handler: nothing, the registry's GetRuntimes, the
\* creation of rA's node watcher, or GetCommittees for rA.
WatchFaults ==
    { [rtsOk |-> TRUE, nwFail |-> {}, cmFail |-> {}],
      [rtsOk |-> FALSE, nwFail |-> {}, cmFail |-> {}],
      [rtsOk |-> TRUE, nwFail |-> {"rA"}, cmFail |-> {}],
      [rtsOk |-> TRUE, nwFail |-> {}, cmFail |-> {"rA"}] }

InitWatch ==
    /\ InitAccess /\ InitReconciler /\ InitWatchers /\ InitCoordinator /\ InitConsensus
    /\ enabled = TRUE
    /\ privatePeers = {}
    /\ lastCall = NoCall
    /\ committees = CommitteesEven

WatchStatus ==
    \E status \in WatchStatuses, initRsp \in {InsecureInitResponse, InitError},
       f \in WatchFaults :
        StatusCase(status, "ok", initRsp, f.rtsOk, f.nwFail, f.cmFail)

WatchStarted == HrtEventCase(StartedNoTEE, TRUE, InsecureInitResponse)

WatchInitTicker ==
    \E f \in WatchFaults :
        InitTickerCase(InsecureInitResponse, f.rtsOk, f.nwFail, f.cmFail)

WatchRt ==
    \E rt \in RegistryRuntimes, f \in WatchFaults : RtCase(rt, f.nwFail, f.cmFail)

WatchEpoch == \E cmFail \in QueryFailures : EpochCase(cmFail, TRUE)

WatchBlk ==
    BlkCase(MaxHeight, IF committees = CommitteesEven THEN CommitteesOdd
                       ELSE CommitteesEven)

WatchCrwWorker == \E r \in ClientRuntimes : CrwWorker(r)

NextWatch ==
    \/ Start
    \/ WatchStatus
    \/ WatchStarted
    \/ WatchInitTicker
    \/ WatchRt
    \/ WatchEpoch
    \/ WatchBlk
    \/ WatchCrwWorker

SpecWatch == InitWatch /\ [][NextWatch]_vars

\* C10: every entry (peer, runtime) of the access list is for a runtime that the
\* policy of the latest status authorizes: after a status update whose policy no
\* longer permits a runtime, no entry for that runtime remains.
C10_EntriesAuthorized ==
    \A p \in DOMAIN accessList : \A r \in accessList[p] :
        /\ currentStatus # Nil
        /\ policyAllows([id |-> r], currentStatus)

\* C22: the access list is written by the loop only: a step of a watcher's own
\* task (clientRuntimeWatcher.worker) leaves both maps as the loop's last
\* rebuild installed them.
C22_OnlyLoopWrites ==
    [][\A r \in ClientRuntimes : CrwWorker(r) => UNCHANGED aclVars]_vars

(***************************************************************************)
(* Generation: the skip of an already published secret.                    *)
(***************************************************************************)
\* The generation task finishes while the secret of its epoch is published.
GenTaskFindsPublished ==
    /\ genTask.pc = "running" /\ genTask'.pc = "idle"
    /\ GetEphemeralSecret(genTask.epoch) # {}

\* The loop takes the result of a task that returned nil without calling the
\* enclave, which is what the skip of a published secret gives.
GenDoneOfSkip ==
    /\ genSecretDoneCh # <<>> /\ genSecretDoneCh' = <<>>
    /\ Head(genSecretDoneCh).ok /\ ~Head(genSecretDoneCh).called

\* C11: a generation task that finds the secret of its epoch published calls no
\* enclave generate and submits nothing, and when the loop takes its result the
\* generation height becomes the disarmed sentinel.
C11_SkipDisarms ==
    [][ /\ GenTaskFindsPublished =>
               /\ ~Head(genSecretDoneCh').called
               /\ ~Head(genSecretDoneCh').published
               /\ chain' = chain /\ verifiedSecrets' = verifiedSecrets
        /\ GenDoneOfSkip => genSecretHeight' = MaxInt64 ]_vars

\* C11, as the code has it: the same, but the height is disarmed only when no
\* epoch transition was taken between the launch of the task and its result;
\* after one, the height chosen for the new epoch is kept.
C11_SkipDisarmsSameEpoch ==
    [][ /\ GenTaskFindsPublished =>
               /\ ~Head(genSecretDoneCh').called
               /\ ~Head(genSecretDoneCh').published
               /\ chain' = chain /\ verifiedSecrets' = verifiedSecrets
        /\ GenDoneOfSkip =>
               genSecretHeight' = IF epochSinceLaunch THEN genSecretHeight
                                  ELSE MaxInt64 ]_vars

\* In epoch 1 another node published the secret of epoch 2; this node's task for
\* epoch 2 returned nil without publishing, and the loop disarmed the height.
C11_Witness ==
    /\ epoch = 1 /\ genSecretRetry >= 1
    /\ Secret(OwnRuntimeID, 2, "other") \in chain
    /\ Secret(OwnRuntimeID, 2, "self") \notin chain
    /\ verifiedSecrets = {}
    /\ lastGeneratedSecret = 2
    /\ genSecretHeight = MaxInt64 /\ ~genSecretInProgress /\ genSecretDoneCh = <<>>

(***************************************************************************)
(* Watchers: which runtimes get one.                                       *)
(***************************************************************************)
\* The registry's descriptor of the runtime r.
RuntimeByID(r) == CHOOSE rt \in RegistryRuntimes : rt.id = r

\* Whether the status st permits the runtime r: r is in the may-query set of an
\* enclave of the policy, or the status is insecure and has no policy.
Permitted(r, st) ==
    \/ st.policy # Nil /\ \E enc \in st.policy.enclaves : r \in enc
    \/ ~st.isSecure /\ st.policy = Nil

\* C12: a step starts a watcher only for a compute runtime that uses this key
\* manager and that the status in force permits, and computeRuntimeCount grows
\* by the number of watchers started: a runtime that is not permitted gets none
\* and leaves the counter unchanged.
C12_WatcherOnlyIfPermitted ==
    [][ /\ \A r \in clientRuntimes' \ clientRuntimes :
               /\ RuntimeByID(r).kind = "compute"
               /\ RuntimeByID(r).keyManager = OwnRuntimeID
               /\ currentStatus' # Nil
               /\ Permitted(r, currentStatus')
        /\ computeRuntimeCount' =
               computeRuntimeCount + Cardinality(clientRuntimes' \ clientRuntimes)
      ]_vars

\* Under a secure status whose policy names only rB, with rA, rB and rC all
\* announced, rB alone has a watcher.
C12_Witness ==
    /\ {"rA", "rB", "rC"} \subseteq { rt.id : rt \in registered }
    /\ currentStatus # Nil /\ currentStatus.isSecure /\ currentStatus.policy = PolicyB
    /\ clientRuntimes = {"rB"}
    /\ computeRuntimeCount = 1

(***************************************************************************)
(* The RPC gate: kinds that are not served.                                *)
(***************************************************************************)
\* C13: a CallEnclave of a kind other than NoiseSession and InsecureQuery ends
\* with the unsupported-kind error, whatever the peer, the frame and the state
\* of initCh, and so is never dispatched to the hosted runtime.
C13_LocalQueryRefused ==
    [][ (lastCall' # lastCall /\ lastCall'.kind \notin {"NoiseSession", "InsecureQuery"})
            => lastCall'.result = "unsupported RPC kind" ]_vars

\* An initialized worker refused a local query of a peer that is on the access
\* list, with a well-formed frame for a public method.
C13_Witness ==
    /\ initCh = "closed" /\ hostedRuntime
    /\ "p1" \in DOMAIN accessList
    /\ lastCall = [kind |-> "LocalQuery", peer |-> "p1",
                   frame |-> [malformed |-> FALSE, plaintext |-> RPCMethodGetPublicKey],
                   result |-> "unsupported RPC kind"]

(***************************************************************************)
(* SpecStop: the coordinator of a worker initialized as in scenario S1,    *)
(* stopped at any moment, with consensus streams that may be closed.       *)
(***************************************************************************)
\* The last block height produced before and after the stop.
StopMaxHeight == 3

NextStop ==
    \/ Start
    \/ \E prov \in ProvisionOutcomes :
           StatusCase(InsecureStatus, prov, InsecureInitResponse, TRUE, {}, {})
    \/ CoordStarted
    \/ CoordEpoch
    \/ BlkCase(StopMaxHeight, NoCommittees)
    \/ CoordPublishOther
    \/ EntCase
    \/ GenSecretCase
    \/ CoordGenTask
    \/ SetLastGenerated
    \/ GenDoneCase
    \/ CoordLoad
    \/ Stop
    \/ StopCase
    \/ \E s \in Streams : closedStreams = {} /\ CloseStream(s)
    \/ \E s \in Streams, beaconOk \in BOOLEAN : ClosedStreamCase(s, {}, beaconOk)

SpecStop == Init /\ [][NextStop]_vars

\* C14: when quitCh is closed after a stop request, no generation task is
\* running and none has its update of lastGeneratedSecret still to make.
C14_QuitClosedLast ==
    (stopCh = "closed" /\ quitCh = "closed") =>
        /\ genTask.pc = "idle"
        /\ setLastPending = <<>>

\* C15: the loop step that receives from a closed consensus stream returns
\* cleanly: the loop is terminated (neither crashed nor still running) and
\* quitCh is closed.
C15_ClosedStreamEndsLoop ==
    [][\A s \in Streams :
          (\E beaconOk \in BOOLEAN : ClosedStreamCase(s, {}, beaconOk)) =>
              loopState' = "terminated" /\ quitCh' = "closed"]_vars

\* C16: a running loop ends only after a stop request or the closure of a
\* consensus stream.
C16_EndsOnlyOnStopOrClosure ==
    [][loopState = "running" /\ loopState' # "running" =>
          stopCh = "closed" \/ closedStreams # {}]_vars

(***************************************************************************)
(* SpecCalls: the calls into the hosted runtime of a worker that is        *)
(* started, initialized and stopped, over the seconds they take.           *)
(***************************************************************************)
\* The seconds a call is followed for.
MaxAge == 3
\* The calls followed at a time.
MaxCalls == 2

NextCalls ==
    \/ Start
    \/ CoordStatus
    \/ CoordStarted
    \/ RegistrationCallback(MaxRegistrations)
    \/ Stop
    \/ StopCase
    \/ \E m \in RemoteKinds \cup LocalMethods :
           Cardinality(rtCalls) < MaxCalls /\ CallBegins(m)
    \/ \E c \in rtCalls : CallProceeds(c)
    \/ \E c \in rtCalls : CallEnds(c)
    \/ \E c \in rtCalls : CallerCancels(c)
    \/ Tick(MaxAge)

SpecCalls == Init /\ [][NextCalls]_vars

\* C18: no call into the hosted runtime, local or remote, is in flight for
\* longer than rpcCallTimeout seconds.
C18_CallsBounded ==
    \A c \in rtCalls : c.age <= rpcCallTimeout

(***************************************************************************)
(* SpecLive: the coordinator of SpecStop's worker under fair scheduling,   *)
(* against a consensus layer that is slow next to the worker: a block      *)
(* arrives when the worker has dealt with everything the previous one      *)
(* brought. The collaborators of a generation task may fail as long as a   *)
(* later block of the same epoch brings a retry.                           *)
(***************************************************************************)
\* The last block height produced.
LiveMaxHeight == 8

\* The enclave runs and the loop has nothing left to do before the next block.
Quiescent ==
    /\ loopState = "running"
    /\ currentStatus # Nil /\ currentRuntimeStatus # Nil
    /\ epoCh = NoEpoch /\ entCh = <<>>
    /\ ~genSecretCh /\ ~loadSecretCh
    /\ ~genSecretInProgress /\ genTask.pc = "idle"
    /\ genSecretDoneCh = <<>> /\ setLastPending = <<>>

\* A failed task is retried: the generation is armed, below the retry cap, and
\* a further block of the epoch is to come.
RetryPossible ==
    /\ genSecretHeight # MaxInt64
    /\ (height + 1) % EpochInterval # 0
    /\ height < LiveMaxHeight

\* The collaborators' answers that let a generation task succeed.
SucceedingInputs ==
    { in \in CoordGenerateInputs :
        in.queryOk /\ ~in.genRsp.err /\ in.genRsp.signer = InsecureRAK /\ in.submitOk }

LiveStarted == HrtEventCase(StartedNoTEE, TRUE, InsecureInitResponse)

LiveBlk == Quiescent /\ BlkCase(LiveMaxHeight, NoCommittees)

LiveGenTask ==
    \E in \in CoordGenerateInputs :
        /\ in \in SucceedingInputs \/ RetryPossible
        /\ GenTaskRun(in, MaxFeed)

NextLive ==
    \/ Start
    \/ CoordStatus
    \/ LiveStarted
    \/ CoordEpoch
    \/ LiveBlk
    \/ CoordPublishOther
    \/ EntCase
    \/ GenSecretCase
    \/ LiveGenTask
    \/ SetLastGenerated
    \/ GenDoneCase
    \/ CoordLoad

FairLive ==
    /\ WF_vars(Start) /\ WF_vars(CoordStatus) /\ WF_vars(LiveStarted)
    /\ WF_vars(CoordEpoch) /\ SF_vars(LiveBlk) /\ WF_vars(EntCase)
    /\ WF_vars(GenSecretCase) /\ WF_vars(LiveGenTask) /\ WF_vars(SetLastGenerated)
    /\ WF_vars(GenDoneCase) /\ WF_vars(CoordLoad)

SpecLive == Init /\ [][NextLive]_vars /\ FairLive

\* The epochs all of whose blocks are produced.
LiveEpochs == { E \in 1..LiveMaxHeight : (E + 1) * EpochInterval - 1 <= LiveMaxHeight }

GenLaunch == genTask.pc = "idle" /\ genTask'.pc = "running"

\* C23: a generation task is launched only when the latest block received is at
\* least the generation height armed at that moment.
C23_LaunchAtArmedHeight ==
    [][GenLaunch => height >= genSecretHeight]_vars

(***************************************************************************)
(* SpecRetry: the coordinator of Spec's worker over more blocks, with      *)
(* generation tasks that fail or succeed and no other publisher.           *)
(***************************************************************************)
\* The last block height produced.
RetryMaxHeight == 10

\* The collaborators' answers: the enclave's call fails, or all goes well.
RetryInputs ==
    { in \in CoordGenerateInputs :
        /\ in.queryOk /\ in.submitOk
        /\ ~in.genRsp.err => in.genRsp.signer = InsecureRAK }

\* The key manager status, with this node in its committee or not.
RetryStatuses == {InsecureStatus, [InsecureStatus EXCEPT !.inCommittee = FALSE]}

NextRetry ==
    \/ Start
    \/ \E status \in RetryStatuses :
           StatusCase(status, "ok", InsecureInitResponse, TRUE, {}, {})
    \/ HrtEventCase(StartedNoTEE, TRUE, InsecureInitResponse)
    \/ EpochCase({}, TRUE)
    \/ BlkCase(RetryMaxHeight, NoCommittees)
    \/ EntCase
    \/ GenSecretCase
    \/ \E in \in RetryInputs : GenTaskRun(in, MaxFeed)
    \/ SetLastGenerated
    \/ GenDoneCase
    \/ CoordLoad

SpecRetry == Init /\ [][NextRetry]_vars

\* C24: genSecretRetry, the number of tasks launched since the last epoch
\* transition, never exceeds generateEphemeralSecretMaxRetries.
C24_AtMostFive ==
    genSecretRetry <= generateEphemeralSecretMaxRetries

\* C24, amended: at most generateEphemeralSecretMaxRetries + 1 tasks are
\* launched between two epoch transitions, and from the launch of the last of
\* them on the generation is disarmed.
C24_AtMostSix ==
    /\ genSecretRetry <= generateEphemeralSecretMaxRetries + 1
    /\ genSecretRetry > generateEphemeralSecretMaxRetries => genSecretHeight = MaxInt64

\* The sixth task since the last epoch transition is running.
C24_Witness ==
    /\ genSecretRetry = generateEphemeralSecretMaxRetries + 1
    /\ genTask.pc = "running"

\* The generation task finishes for a status without this node in the
\* committee, the secret of its epoch not being published.
GenTaskNotInCommittee ==
    /\ genTask.pc = "running" /\ genTask'.pc = "idle"
    /\ ~genTask.kmStatus.inCommittee
    /\ GetEphemeralSecret(genTask.epoch) = {}

\* The loop takes, in the epoch of its launch, the result of a task that failed
\* before calling the enclave.
GenDoneOfNotCalled ==
    /\ genSecretDoneCh # <<>> /\ genSecretDoneCh' = <<>>
    /\ ~Head(genSecretDoneCh).ok /\ ~Head(genSecretDoneCh).called
    /\ ~epochSinceLaunch

\* C25: a generation task that finds this node outside the committee calls no
\* enclave generate, and when the loop takes its result the epoch is abandoned:
\* the generation is disarmed until the next epoch transition.
C25_NotInCommitteeAbandons ==
    [][ /\ GenTaskNotInCommittee =>
               /\ ~Head(genSecretDoneCh').called
               /\ chain' = chain
        /\ GenDoneOfNotCalled => genSecretHeight' = MaxInt64 ]_vars

(***************************************************************************)
(* SpecGenerate: the coordinator of Spec with a key manager status that    *)
(* has this node in its committee or not.                                  *)
(***************************************************************************)
GenMaxHeight == 5

NextGenerate ==
    \/ Start
    \/ \E status \in RetryStatuses :
           StatusCase(status, "ok", InsecureInitResponse, TRUE, {}, {})
    \/ CoordStarted
    \/ CoordEpoch
    \/ BlkCase(GenMaxHeight, NoCommittees)
    \/ CoordPublishOther
    \/ EntCase
    \/ GenSecretCase
    \/ CoordGenTask
    \/ SetLastGenerated
    \/ GenDoneCase
    \/ CoordLoad

SpecGenerate == Init /\ [][NextGenerate]_vars

\* The generation task finishes and sends its result.
GenTaskEnds == genTask.pc = "running" /\ genTask'.pc = "idle"

\* C26: a run of generateEphemeralSecret calls the enclave only when the query
\* showed no secret of its epoch and the status has this node in its committee,
\* verifies only a response the enclave gave, submits the transaction only for
\* a response that verified for its epoch, and nothing reaches the consensus
\* layer without a submission.
C26_SubmitAfterChecks ==
    [][GenTaskEnds =>
           LET res == Head(genSecretDoneCh')
           IN /\ res.called => /\ GetEphemeralSecret(genTask.epoch) = {}
                               /\ genTask.kmStatus.inCommittee
              /\ res.verified => /\ res.called
                                 /\ Secret(OwnRuntimeID, genTask.epoch, "self")
                                        \in verifiedSecrets'
              /\ res.submitted => res.verified
              /\ chain' # chain => res.submitted]_vars

\* A task submitted the secret of epoch 2 after an earlier task of the epoch
\* had failed, the status having listed this node in the committee.
C26_Witness ==
    /\ genSecretDoneCh # <<>>
    /\ Head(genSecretDoneCh).submitted
    /\ Head(genSecretDoneCh).published
    /\ genSecretRetry = 2
    /\ Secret(OwnRuntimeID, 2, "self") \in chain

\* The genSecretCh case counts a launch.
GenLaunchCounted == genSecretRetry' = genSecretRetry + 1

\* C27: a generation task is launched only while genSecretInProgress is false
\* and no task runs; genSecretInProgress is true while a task runs or its result
\* waits in genSecretDoneCh, and in a running loop only then; genSecretDoneCh
\* never holds more than one result, and a running task finds it empty, so that
\* its send does not block.
C27_OneTaskInFlight ==
    /\ [](/\ (genTask.pc = "running" \/ genSecretDoneCh # <<>>) => genSecretInProgress
          /\ (loopState = "running" /\ genSecretInProgress) =>
                 (genTask.pc = "running" \/ genSecretDoneCh # <<>>)
          /\ Len(genSecretDoneCh) <= 1
          /\ genTask.pc = "running" => genSecretDoneCh = <<>>)
    /\ [][GenLaunchCounted => ~genSecretInProgress /\ genTask.pc = "idle"]_vars

\* A stop is requested while the result of the only task launched waits in
\* genSecretDoneCh and a later block has signalled the generation case again.
C27_Witness ==
    /\ loopState = "running"
    /\ stopCh = "closed"
    /\ genSecretInProgress
    /\ genTask.pc = "idle"
    /\ Len(genSecretDoneCh) = 1
    /\ genSecretCh

\* The loop takes the result of a generation task.
GenResultTaken == genSecretInProgress /\ ~genSecretInProgress'

\* C28: when the loop takes the result of a task launched before the latest
\* epoch transition, whether the task succeeded or failed, the generation
\* height stays what it was: the one the transition chose.
C28_StaleResultKeepsHeight ==
    [][(GenResultTaken /\ epochSinceLaunch) => genSecretHeight' = genSecretHeight]_vars

\* The task launched in epoch 1 published the secret of epoch 2; its result
\* waits in genSecretDoneCh while the transition to epoch 2 has reset the retry
\* counter and armed the height 7.
C28_Witness ==
    /\ epoch = 2
    /\ epochSinceLaunch
    /\ genSecretDoneCh # <<>>
    /\ Head(genSecretDoneCh).ok
    /\ Head(genSecretDoneCh).published
    /\ genSecretRetry = 0
    /\ genSecretHeight = 7

(***************************************************************************)
(* The entCh case.                                                         *)
(***************************************************************************)
\* The loop takes a secret from entCh.
EntTaken == loopState = "running" /\ entCh # <<>> /\ entCh' = Tail(entCh)

\* What the loop keeps between iterations, and the worker's fields.
loopLocals == <<epoch, secrets, loadSecretCh, loadSecretRetry, lastLoadedSecret,
                genSecretCh, genSecretDoneCh, genSecretHeight, genSecretInProgress,
                genSecretRetry, currentStatus, currentRuntimeStatus, loopState,
                accessList, accessListByRuntime, privatePeers, enclaveStatus,
                lastGeneratedSecret, numGeneratedSecrets, hostedRuntime>>

\* C29: a secret of another runtime taken from entCh changes nothing the loop
\* or the worker keeps; one of the worker's own runtime is appended to secrets,
\* resets loadSecretRetry, signals the load case, and sets the generation height
\* to the disarmed sentinel when its epoch is epoch + 1 and leaves it otherwise.
C29_EntCaseEffect ==
    [][EntTaken =>
           LET secret == Head(entCh)
           IN IF secret.id # OwnRuntimeID
              THEN UNCHANGED loopLocals
              ELSE /\ secrets' = Append(secrets, secret)
                   /\ loadSecretRetry' = 0
                   /\ loadSecretCh'
                   /\ genSecretHeight' = IF secret.epoch = epoch + 1 THEN MaxInt64
                                         ELSE genSecretHeight]_vars

\* The loop, in epoch 1, has not yet taken the epoch 2 the beacon has reached;
\* it has taken the secret of epoch 3 another node published, and the
\* generation of the secret of epoch 2 stays armed.
C29_Witness ==
    /\ epoch = 1
    /\ epoCh = 2
    /\ secrets # <<>>
    /\ secrets[Len(secrets)].epoch = 3
    /\ entCh = <<>>
    /\ loadSecretRetry = 0
    /\ genSecretHeight < MaxInt64

(***************************************************************************)
(* The loadSecretCh case.                                                  *)
(***************************************************************************)
\* The loop runs a load iteration to its end.
LoadTaken ==
    /\ loopState = "running" /\ loopState' = "running"
    /\ loadSecretCh /\ ~loadSecretCh'

\* The positions f keeps of s, in order, give t; the greatest position it drops,
\* if any, holds the secret whose epoch is last: the last one loaded.
KeepsFailed(f, t, s, last) ==
    LET gone == DOMAIN s \ { f[i] : i \in DOMAIN t }
    IN /\ \A i, j \in DOMAIN t : i < j => f[i] < f[j]
       /\ \A i \in DOMAIN t : t[i] = s[f[i]]
       /\ \E m \in gone : (\A n \in gone : n <= m) /\ last = s[m].epoch

\* C30: a load iteration passes every pending secret to the enclave's load call
\* once, in queue order, and adds one to loadSecretRetry whatever the outcomes;
\* unless that exceeds the cap, which empties the queue, the queue afterwards is
\* what is left of it, in order, once the loaded secrets are dropped: all of it
\* when lastLoadedSecret has not moved, and otherwise the last secret dropped
\* is the one lastLoadedSecret names.
C30_LoadIteration ==
    [][LoadTaken =>
           /\ lastLoad' = secrets
           /\ loadSecretRetry' = loadSecretRetry + 1
           /\ IF loadSecretRetry + 1 > loadEphemeralSecretMaxRetries
              THEN secrets' = <<>>
              ELSE \/ secrets' = secrets /\ lastLoadedSecret' = lastLoadedSecret
                   \/ \E f \in [DOMAIN secrets' -> DOMAIN secrets] :
                          KeepsFailed(f, secrets', secrets, lastLoadedSecret')]_vars

\* Two secrets were pending; a first iteration loaded neither, a second one
\* loaded the first and failed on the second, which alone stays pending, and
\* the retry counter is at 2.
C30_Witness ==
    /\ Len(lastLoad) = 2
    /\ secrets = <<lastLoad[2]>>
    /\ lastLoadedSecret = lastLoad[1].epoch
    /\ loadSecretRetry = 2
    /\ loadFailures = 0

(***************************************************************************)
(* The warm-up of the runtime started case.                                *)
(***************************************************************************)
\* C31: a step of the worker other than a load iteration drops no pending
\* secret: the warm-up after a Started or Updated event, whether its fetch
\* succeeds or fails, leaves every secret that was pending in the queue.
C31_WarmupKeepsPending ==
    [][~(loadSecretCh /\ ~loadSecretCh') =>
           \A i \in DOMAIN secrets : \E j \in DOMAIN secrets' : secrets'[j] = secrets[i]]_vars

(***************************************************************************)
(* Local enclave calls and the hosted runtime.                             *)
(***************************************************************************)
\* The loop runs a load iteration with secrets pending: it makes load calls.
LoadCalls == loopState = "running" /\ loadSecretCh /\ ~loadSecretCh' /\ secrets # <<>>

\* C32: the load calls of a load iteration and the launch of a generation task
\* happen only while the hosted runtime is provisioned and the runtime host last
\* reported the enclave started.
C32_CallsOnRunningEnclave ==
    [][(LoadCalls \/ GenLaunch) => (hostedRuntime /\ currentRuntimeStatus # Nil)]_vars

(***************************************************************************)
(* Reconciliation: failures, the retry ticker and the recheck.             *)
(***************************************************************************)
\* A handler of the loop runs updateStatus, the enclave's init call gives
\* initRsp, and updateStatus returns an error.
ReconcileFails(initRsp) ==
    /\ initTicker'
    /\ \/ /\ currentRuntimeStatus # Nil
          /\ \E status \in ReconStatuses :
                /\ status = currentStatus'
                /\ status.id = OwnRuntimeID
                /\ ~updateStatus(status, currentRuntimeStatus, initRsp, RC).ok
                /\ StatusCase(status, "ok", initRsp, TRUE, {}, {})
       \/ /\ currentStatus # Nil
          /\ \E ev \in HostEvents, fetchOk \in BOOLEAN :
                /\ ev.kind \in {"Started", "Updated"}
                /\ currentRuntimeStatus' = [capabilityTEE |-> ev.capabilityTEE]
                /\ ~updateStatus(currentStatus, currentRuntimeStatus', initRsp, RC).ok
                /\ HrtEventCase(ev, fetchOk, initRsp)
       \/ /\ currentStatus # Nil /\ currentRuntimeStatus # Nil
          /\ ~updateStatus(currentStatus, currentRuntimeStatus, initRsp, RC).ok
          /\ InitTickerCase(initRsp, TRUE, {}, {})

\* C33: a handler whose updateStatus fails, on an init error, an unknown TEE
\* hardware or a signature that does not verify, leaves enclaveStatus and
\* policy as they were, arms no registration callback, attaches nothing new to
\* the node registration but the preregistration without a response, leaves
\* initCh alone and has the init ticker armed.
C33_FailureKeepsState ==
    [][\A initRsp \in ReconInitOutcomes :
           ReconcileFails(initRsp) =>
               /\ enclaveStatus' = enclaveStatus
               /\ policy' = policy
               /\ regCallback' = regCallback
               /\ roleProvider'.extraInfo \in {roleProvider.extraInfo, Nil}
               /\ initCh' = initCh /\ initChCloses' = initChCloses
               /\ initTicker']_vars

\* After a reconciliation had succeeded and the node was registered, a later
\* one failed: the init ticker is armed while the response cached and
\* registered is the earlier one, and the worker stays initialized.
C33_Witness ==
    /\ initTicker
    /\ enclaveStatus # Nil
    /\ roleProvider.extraInfo = enclaveStatus
    /\ initCh = "closed"
    /\ currentRuntimeStatus # Nil /\ currentRuntimeStatus.capabilityTEE # Nil
    /\ ~VerifyInitResponse(enclaveStatus, ExpectedRAK(currentRuntimeStatus.capabilityTEE))

(***************************************************************************)
(* SpecTicker: the reconciler of an enabled worker whose enclave, once      *)
(* started, stays up on a hardware some init response verifies for. The     *)
(* init ticker keeps firing, an init that can succeed eventually does, and  *)
(* an armed registration eventually completes; status updates and runtime   *)
(* host events may stop coming at any time.                                 *)
(***************************************************************************)
\* Started and Updated events of a runtime without TEE, or with one of a known
\* hardware.
TickerEvents ==
    { ev \in HostEvents : /\ ev.kind \in {"Started", "Updated"}
                          /\ ev.capabilityTEE # Nil =>
                                 ev.capabilityTEE.hardware \in {"Invalid", "IntelSGX"} }

TickerStatus ==
    \E status \in ReconStatuses, initRsp \in ReconInitOutcomes :
        StatusCase(status, "ok", initRsp, TRUE, {}, {})

TickerHrtEvent ==
    \E ev \in TickerEvents, initRsp \in ReconInitOutcomes : HrtEventCase(ev, TRUE, initRsp)

TickerFires == \E initRsp \in ReconInitOutcomes : InitTickerCase(initRsp, TRUE, {}, {})

\* The ticker fires and the enclave's init succeeds.
TickerSucceeds == TickerFires /\ ~initTicker'

NextTicker ==
    \/ Start
    \/ TickerFires
    \/ ReconRegistered
    \/ TickerStatus
    \/ TickerHrtEvent

SpecTicker ==
    /\ Init /\ [][NextTicker]_vars
    /\ WF_vars(TickerSucceeds)
    /\ WF_vars(ReconRegistered)

\* A status and a started enclave are known and no reconciliation has succeeded.
ReconcileOutstanding ==
    /\ loopState = "running"
    /\ currentStatus # Nil /\ currentRuntimeStatus # Nil
    /\ enclaveStatus = Nil

\* C34: once a status and a started enclave are known and the reconciliation
\* has failed, the worker gets initialized with no further status update: the
\* init ticker runs the reconciliation again, and the run that succeeds clears
\* the ticker and registers the node with the enclave's response, whose
\* completed registration closes initCh.
C34_TickerRetries ==
    /\ ReconcileOutstanding ~> (initCh = "closed")
    /\ [][(initTicker /\ ~initTicker') =>
              /\ enclaveStatus' # Nil
              /\ roleProvider'.available /\ roleProvider'.extraInfo = enclaveStatus'
              /\ regCallback']_vars

\* With the status and an SGX enclave known, the reconciliation has failed:
\* no response is cached or registered, initCh is open and the ticker is armed.
C34_Witness ==
    /\ ReconcileOutstanding
    /\ initTicker
    /\ initCh = "open"
    /\ ~regCallback /\ roleProvider.extraInfo = Nil
    /\ currentRuntimeStatus.capabilityTEE # Nil
    /\ currentRuntimeStatus.capabilityTEE.hardware = "IntelSGX"

\* A handler of the loop runs updateStatus with success, and no query of a
\* recheck that follows fails.
ReconcileSucceeds ==
    \/ /\ currentRuntimeStatus # Nil
       /\ \E status \in WatchStatuses :
             /\ status = currentStatus'
             /\ StatusCase(status, "ok", InsecureInitResponse, TRUE, {}, {})
    \/ /\ currentStatus # Nil /\ currentRuntimeStatus # Nil
       /\ InitTickerCase(InsecureInitResponse, TRUE, {}, {})
    \/ /\ currentStatus # Nil
       /\ HrtEventCase(StartedNoTEE, TRUE, InsecureInitResponse)

\* C35: after a handler that reconciled with success, on a status update, on
\* the init ticker or on a Started event, every registered compute runtime of
\* this key manager that the policy of the current status permits has a
\* watcher.
C35_RecheckAfterReconcile ==
    [][ReconcileSucceeds =>
           \A rt \in registered :
               (/\ rt.kind = "compute" /\ rt.keyManager = OwnRuntimeID
                /\ policyAllows(rt, currentStatus')) => rt.id \in clientRuntimes']_vars

(***************************************************************************)
(* Watchers and their counter.                                             *)
(***************************************************************************)
\* C36: computeRuntimeCount is the number of runtimes that have a watcher,
\* whatever registrations and rechecks have run; watchers are only added, the
\* counter growing by the number added; and startClientRuntimeWatcher, when
\* the creation of the node watcher fails, adds no watcher and leaves the
\* counter as it was.
C36_OneWatcherPerRuntime ==
    /\ [](/\ computeRuntimeCount = Cardinality(clientRuntimes)
          /\ \A rt \in RegistryRuntimes :
                 LET ws == startClientRuntimeWatcher(rt, currentStatus, WS, committees,
                                                     {rt.id}, {})
                 IN /\ ws.clientRuntimes = clientRuntimes
                    /\ ws.computeRuntimeCount = computeRuntimeCount)
    /\ [][/\ clientRuntimes \subseteq clientRuntimes'
          /\ computeRuntimeCount' =
                 computeRuntimeCount + Cardinality(clientRuntimes' \ clientRuntimes)]_vars

\* rA and rB have a watcher each, counted twice in all, after the registry
\* announced both and a reconciliation ran the recheck over them.
C36_Witness ==
    /\ clientRuntimes = {"rA", "rB"}
    /\ computeRuntimeCount = 2
    /\ { rt.id : rt \in registered } = {"rA", "rB", "rC", OwnRuntimeID}
    /\ enclaveStatus # Nil

(***************************************************************************)
(* CallEnclave and the initialization.                                     *)
(***************************************************************************)
\* The results of a CallEnclave that reached rt.Call.
Dispatched == RuntimeCallOutcomes \cup {"nil runtime"}

\* C37: a CallEnclave whose request reaches the hosted runtime has passed the
\* access check and found initCh closed; one that fails the access check
\* returns that error whether the worker is initialized or not; and one whose
\* context is done while initCh is open returns the context error.
C37_NoDispatchBeforeInit ==
    [][lastCall' # lastCall =>
           LET gate == accessControl(lastCall'.peer, lastCall'.frame, lastCall'.kind,
                                     privatePeers, accessList)
           IN /\ lastCall'.result \in Dispatched => (gate = "ok" /\ initCh = "closed")
              /\ gate # "ok" => lastCall'.result = gate
              /\ (gate = "ok" /\ initCh = "open") => lastCall'.result = "context error"]_vars

\* Before the worker's registration has completed, a Noise session request of a
\* private peer for a method behind the access check ended with the context
\* error.
C37_Witness ==
    /\ initCh = "open"
    /\ lastCall.kind = "NoiseSession"
    /\ lastCall.peer \in privatePeers
    /\ ~lastCall.frame.malformed /\ lastCall.frame.plaintext = "get_or_create_keys"
    /\ lastCall.result = "context error"

(***************************************************************************)
(* SpecGateAny: the RPC gate of SpecGate on a worker created enabled or    *)
(* disabled.                                                               *)
(***************************************************************************)
InitGateAny ==
    /\ InitAccess /\ InitReconciler /\ InitWatchers /\ InitCoordinator /\ InitConsensus
    /\ enabled \in BOOLEAN
    /\ privatePeers \in SUBSET {"p2", "p3"}
    /\ lastCall = NoCall
    /\ committees = NoCommittees

SpecGateAny == InitGateAny /\ [][NextGate]_vars

\* C38: no CallEnclave that got past its wait for initCh finds the hosted
\* runtime nil, on a worker created enabled or disabled.
C38_RuntimeAfterInit == lastCall.result # "nil runtime"

(***************************************************************************)
(* The generation height chosen by the epoch case.                         *)
(***************************************************************************)
\* The number of heights the epoch case chooses from: max(1, interval * 90 / 100).
ArmedSpan ==
    LET scaled == (EpochInterval * 90) \div 100
    IN IF scaled > 1 THEN scaled ELSE 1

\* C39: the epoch case for epoch E sets genSecretRetry to 0 and arms a height h
\* with first(E) <= h < first(E) + max(1, interval * 90 / 100) when the beacon
\* queries succeed, and the height 0 when they fail.
C39_ArmedHeightInRange ==
    [][\A beaconOk \in BOOLEAN :
           (epoCh # NoEpoch /\ epoCh' = NoEpoch /\ EpochCase({}, beaconOk)) =>
               /\ genSecretRetry' = 0
               /\ epoch' = epoCh
               /\ IF beaconOk
                  THEN /\ GetEpochBlock(epoch') <= genSecretHeight'
                       /\ genSecretHeight' < GetEpochBlock(epoch') + ArmedSpan
                  ELSE genSecretHeight' = 0]_vars

\* The transition to epoch 2 has armed the last height it chooses from, with
\* the retry counter at 0 and the result of a task of epoch 1 still waiting.
C39_Witness ==
    /\ epoch = 2
    /\ epoCh = NoEpoch
    /\ genSecretHeight = GetEpochBlock(2) + ArmedSpan - 1
    /\ genSecretRetry = 0
    /\ genSecretDoneCh # <<>>

(***************************************************************************)
(* What the worker reports as generated.                                   *)
(***************************************************************************)
\* C40: lastGeneratedSecret and numGeneratedSecrets change only for an epoch
\* whose secret this node's enclave generated and this node published; a task
\* that skipped the generation because the secret was already published
\* leaves both unchanged.
C40_CountsOwnSecretsOnly ==
    [][(lastGeneratedSecret' # lastGeneratedSecret
            \/ numGeneratedSecrets' # numGeneratedSecrets) =>
           Secret(OwnRuntimeID, lastGeneratedSecret', "self") \in chain]_vars

====
